---- MODULE Spec2Model ----
(***************************************************************************)
(* Model of the SPS30 I2C driver (sps30lib.cpp / sps30lib.h).              *)
(*                                                                         *)
(* The session is the SPS30 object: its private fields are the variables.  *)
(* The bus (bcm2835 library) and the sensor behind it are the environment: *)
(* every transport call returns one of the reasons the driver switches on, *)
(* and a successful read returns the bytes the sensor sends for the        *)
(* command whose pointer was written last, possibly with one byte damaged. *)
(* A public method is one action; the C++ call tree below it is a tree of  *)
(* operators that map a session record to the set of outcomes the          *)
(* environment allows, [s |-> session after, ret |-> returned value].      *)
(*                                                                         *)
(* Floats are kept as their IEEE-754 bit pattern, written as the four      *)
(* bytes most significant first.                                           *)
(***************************************************************************)
EXTENDS Integers, Sequences, FiniteSets, TLC

(***************************************************************************)
(* Bounds of the model (not program constants).                            *)
(***************************************************************************)
\* device firmware levels 0..MaxMajor . 0..MaxMinor
MaxMajor == 3
MaxMinor == 2
\* distinct samples the sensor can deliver
MaxSample == 2
\* single-value getters exercised: fields v_MassPM1 .. MaxField
MaxField == 2
\* transport / CRC faults the environment injects in one run
MaxFaults == 1
\* public calls in a run that is kept short
MaxCalls == 2
\* the count of version reads saturates here
MaxProbeCount == 2

(***************************************************************************)
(* Program constants, sps30lib.h                                           *)
(***************************************************************************)
ERR_OK == 0
ERR_DATALENGTH == 1
ERR_PARAMETER == 4
ERR_OUTOFRANGE == 40
ERR_CMDSTATE == 67
ERR_TIMEOUT == 80
ERR_PROTOCOL == 81
ERR_FIRMWARE == 136

MAXBUF == 100
RESET_RETRY == 5
SENDBUF == 10

I2C_START_MEASUREMENT == 16
I2C_STOP_MEASUREMENT == 260
I2C_READ_DATA_RDY_FLAG == 514
I2C_READ_MEASURED_VALUE == 768
I2C_SLEEP == 4097
I2C_WAKEUP == 4098
I2C_START_FAN_CLEANING == 22023
I2C_AUTO_CLEANING_INTERVAL == 32772
I2C_SET_AUTO_CLEANING_INTERVAL == 32773
I2C_READ_PRODUCT_TYPE == 53250
I2C_READ_SERIAL_NUMBER == 53299
I2C_READ_VERSION == 53504
I2C_READ_STATUS_REGISTER == 53766
I2C_CLEAR_STATUS_REGISTER == 53766
I2C_RESET == 54020

START_MEASURE_FLOAT == 3

STATUS_SPEED_ERROR == 1
STATUS_LASER_ERROR == 2
STATUS_FAN_ERROR == 4

v_MassPM1 == 1
v_PartSize == 10

INCLUDE_FWCHECK == 1

\* the reasons bcm2835_i2c_write / bcm2835_i2c_read return
Reasons == {"OK", "NACK", "CLKT", "DATA"}

(***************************************************************************)
(* Bit arithmetic on bytes                                                 *)
(***************************************************************************)
RECURSIVE XorBits(_, _)
XorBits(a, b) ==
    IF a = 0 THEN b
    ELSE IF b = 0 THEN a
    ELSE ((a + b) % 2) + 2 * XorBits(a \div 2, b \div 2)

\* exclusive or of two half bytes, worked out once
XorNibble ==
    SubSeq([a \in 1..16 |-> SubSeq([b \in 1..16 |-> XorBits(a - 1, b - 1)], 1, 16)], 1, 16)

\* a ^ b on uint8_t
XOR(a, b) ==
    16 * XorNibble[(a \div 16) + 1][(b \div 16) + 1] + XorNibble[(a % 16) + 1][(b % 16) + 1]

\* bit n (0 = least significant) of x
Bit(x, n) == (x \div (2 ^ n)) % 2

\* x with bit n flipped
FlipBit(x, n) == IF Bit(x, n) = 1 THEN x - 2 ^ n ELSE x + 2 ^ n

\* one turn of the inner loop of I2C_calc_CRC, on a uint8_t
CrcShift(crc) ==
    IF crc >= 128 THEN XOR((crc * 2) % 256, 49) ELSE (crc * 2) % 256

RECURSIVE CrcBits(_, _)
CrcBits(crc, bit) ==
    IF bit = 0 THEN crc ELSE CrcBits(CrcShift(crc), bit - 1)

\* the inner loop of I2C_calc_CRC (for bit = 8; bit > 0; --bit) for every
\* value of crc it can start from, worked out once
CrcByte == SubSeq([b \in 1..256 |-> CrcBits(b - 1, 8)], 1, 256)

\* seeded fault: the CRC register starts at 0 instead of 0xFF
I2C_calc_CRC_ZeroInit(d0, d1) == CrcByte[XOR(CrcByte[d0 + 1], d1) + 1]

\* uint8_t I2C_calc_CRC(uint8_t data[2]): crc = 0xFF, then for both bytes
\* crc ^= data[i] and the inner loop
I2C_calc_CRC(d0, d1) == CrcByte[XOR(CrcByte[XOR(255, d0) + 1], d1) + 1]

(***************************************************************************)
(* The session: the private fields of class SPS30, the static record of    *)
(* Get_Single_Value, and the record a caller hands to GetValues.           *)
(***************************************************************************)
VARIABLES
    _Receive_BUF,         \* uint8_t _Receive_BUF[MAXBUF], index 0 is [1] here
    _Receive_BUF_Length,
    _Send_BUF,            \* uint8_t _Send_BUF[10]
    _Send_BUF_Length,
    _SPS30_Debug,
    _started,
    _sleep,
    _WasStarted,
    _FW_Major,
    _FW_Minor,
    Reported,             \* uint8_t Reported[11]
    v_static,             \* static struct sps_values v of Get_Single_Value
    v_caller,             \* the struct sps_values of a caller of GetValues
    busOpen,              \* bcm2835 library initialised and I2C pins set up
    devMajor,             \* firmware level of the sensor on the bus
    devMinor,
    faults,               \* faults the environment has injected so far
    probes,               \* version-read frames written so far (saturating)
    lastOp,               \* the last public call: name, arguments, result, bus traffic
    prevOp,               \* the public call before it
    pending,              \* a response waiting on the bus to be decoded, or none
    calls,                \* public calls made so far, where a run is kept short
    monitor               \* main_loop of the monitor: its position, locals and options

vars == <<_Receive_BUF, _Receive_BUF_Length, _Send_BUF, _Send_BUF_Length,
          _SPS30_Debug, _started, _sleep, _WasStarted, _FW_Major, _FW_Minor,
          Reported, v_static, v_caller, busOpen, devMajor, devMinor, faults,
          probes, lastOp, prevOp, pending, calls, monitor>>

Min(a, b) == IF a < b THEN a ELSE b

\* the session as one value, as the methods see it; log is the bus traffic of
\* the public call in progress and refreshes the GetValues calls made in it
Sess ==
    [RBUF |-> _Receive_BUF, RLEN |-> _Receive_BUF_Length,
     SBUF |-> _Send_BUF, SLEN |-> _Send_BUF_Length,
     Debug |-> _SPS30_Debug, started |-> _started, sleep |-> _sleep,
     WasStarted |-> _WasStarted, FW_Major |-> _FW_Major, FW_Minor |-> _FW_Minor,
     Reported |-> Reported, bus |-> busOpen, faults |-> faults,
     probes |-> probes, log |-> <<>>, refreshes |-> 0, out |-> <<>>]

\* a struct sps_values, all ten floats 0.0
ZeroFloat == <<0, 0, 0, 0>>
ZeroValues == [f \in v_MassPM1..v_PartSize |-> ZeroFloat]

\* [s |-> session, ret |-> value]
Out(s, r) == [s |-> s, ret |-> r]

\* run f on every outcome of a call and collect what it can yield
Bind(outs, f(_)) == UNION { f(o) : o \in outs }

\* one entry of the bus traffic
Event(ev, cmd, frame, ok) == [ev |-> ev, cmd |-> cmd, frame |-> frame, ok |-> ok]

Logged(s, e) == [s EXCEPT !.log = Append(@, e)]

\* if (_SPS30_Debug) printf(...) for level 1, if (_SPS30_Debug == 2) printf(...)
\* for level 2: the line is printed, nothing else happens
Say(s, level, line) ==
    IF s.Debug >= level THEN [s EXCEPT !.out = Append(@, line)] ELSE s

\* the reasons the environment may still return: a fault only within budget
ReasonsFor(s) == IF s.faults < MaxFaults THEN Reasons ELSE {"OK"}

\* the session with the fault counted, if ok is false
Faulted(s, ok) == IF ok THEN s ELSE [s EXCEPT !.faults = @ + 1]

(***************************************************************************)
(* Frame codec, sending side                                               *)
(***************************************************************************)
\* seeded fault: the start-measurement argument word goes out without its CRC
FrameOf_StartNoCrc(cmd, interval) ==
    LET hdr == <<(cmd \div 256) % 256, cmd % 256>>
    IN  IF cmd = I2C_START_MEASUREMENT
        THEN hdr \o <<START_MEASURE_FLOAT, 0>>
        ELSE IF cmd = I2C_SET_AUTO_CLEANING_INTERVAL
        THEN LET b3 == (interval \div 16777216) % 256
                 b2 == (interval \div 65536) % 256
                 b1 == (interval \div 256) % 256
                 b0 == interval % 256
             IN  <<(I2C_AUTO_CLEANING_INTERVAL \div 256) % 256,
                   I2C_AUTO_CLEANING_INTERVAL % 256,
                   b3, b2, I2C_calc_CRC(b3, b2), b1, b0, I2C_calc_CRC(b1, b0)>>
        ELSE hdr

\* void SPS30::I2C_fill_buffer(uint32_t cmd, uint32_t interval): the frame
FrameOf(cmd, interval) ==
    LET hdr == <<(cmd \div 256) % 256, cmd % 256>>
    IN  IF cmd = I2C_START_MEASUREMENT
        THEN hdr \o <<START_MEASURE_FLOAT, 0, I2C_calc_CRC(START_MEASURE_FLOAT, 0)>>
        ELSE IF cmd = I2C_SET_AUTO_CLEANING_INTERVAL
        THEN LET b3 == (interval \div 16777216) % 256
                 b2 == (interval \div 65536) % 256
                 b1 == (interval \div 256) % 256
                 b0 == interval % 256
             IN  <<(I2C_AUTO_CLEANING_INTERVAL \div 256) % 256,
                   I2C_AUTO_CLEANING_INTERVAL % 256,
                   b3, b2, I2C_calc_CRC(b3, b2), b1, b0, I2C_calc_CRC(b1, b0)>>
        ELSE hdr

\* the send buffer after I2C_fill_buffer: zeroed, then the frame
I2C_fill_buffer(s, cmd, interval) ==
    LET f == FrameOf(cmd, interval)
    IN  [s EXCEPT !.SBUF = f \o [i \in 1..(SENDBUF - Len(f)) |-> 0],
                  !.SLEN = Len(f)]

\* the frame in the send buffer and the 16-bit command it starts with
SentFrame(s) == SubSeq(s.SBUF, 1, s.SLEN)
SentCmd(s) == s.SBUF[1] * 256 + s.SBUF[2]

\* what I2C_SetPointer returns for a reason of bcm2835_i2c_write: every
\* case of the switch returns ERR_PROTOCOL, no case is OK
WriteRet(reason) == IF reason = "OK" THEN ERR_OK ELSE ERR_PROTOCOL

\* uint8_t SPS30::I2C_SetPointer()
\* what I2C_SetPointer prints: the frame at level 1 and up, the reason of a
\* failed write at level 2
WriteSays(s, ret) ==
    IF s.Debug = 0 THEN s.out
    ELSE s.out \o <<"I2C Sending">>
               \o (IF s.Debug = 2 /\ ret # ERR_OK THEN <<"DEBUG: Write error">> ELSE <<>>)

I2C_SetPointer(s) ==
    IF s.SLEN = 0 THEN {Out(s, ERR_DATALENGTH)}
    ELSE { Out([Logged(Faulted(s, ret = ERR_OK),
                       Event("write", SentCmd(s), SentFrame(s), ret = ERR_OK))
                  EXCEPT !.probes = IF SentCmd(s) = I2C_READ_VERSION
                                    THEN Min(@ + 1, MaxProbeCount) ELSE @,
                         !.out = WriteSays(s, ret)],
               ret) : ret \in {WriteRet(r) : r \in ReasonsFor(s)} }

(***************************************************************************)
(* The sensor on the bus (environment): the data words it sends for the    *)
(* command whose pointer was written last.                                 *)
(***************************************************************************)
\* the ten floats of sample k, four bytes each, most significant byte first;
\* sample 1 is MassPM1 = 12.5 (0x41480000), MassPM2 = 20.25 (0x41A20000), rest 0.0
SampleFloat(k, f) ==
    IF k = 1
    THEN (IF f = 1 THEN <<65, 72, 0, 0>> ELSE IF f = 2 THEN <<65, 162, 0, 0>> ELSE ZeroFloat)
    ELSE <<64 + k, 16 * f, k, 10 * f + k>>

SampleBytes ==
    SubSeq([k \in 1..MaxSample |->
               SubSeq([i \in 1..(4 * v_PartSize) |->
                          SampleFloat(k, ((i - 1) \div 4) + 1)[((i - 1) % 4) + 1]],
                      1, 4 * v_PartSize)],
           1, MaxSample)

\* the device status register values the sensor may report (32 bits, MSB first):
\* no error, fan speed out of range (bit 21), laser failure (bit 5), fan failure (bit 4)
StatusWords == {<<0, 0, 0, 0>>, <<0, 32, 0, 0>>, <<0, 0, 0, 32>>, <<0, 0, 0, 16>>}

\* the x bytes a read of x bytes gets: every two data bytes followed by
\* their CRC, and 0xFF from the idle bus once the sensor has no more to send
Wire(bytes, x) ==
    LET sent == [i \in 1..x |->
                    LET w == (i - 1) \div 3
                        r == (i - 1) % 3
                    IN  IF 2 * w + 2 > Len(bytes) THEN 255
                        ELSE IF r = 0 THEN bytes[2 * w + 1]
                        ELSE IF r = 1 THEN bytes[2 * w + 2]
                        ELSE I2C_calc_CRC(bytes[2 * w + 1], bytes[2 * w + 2])]
    IN  SubSeq(sent, 1, x)

\* the wire bytes of the measured values, worked out once per sample
SampleWire == SubSeq([k \in 1..MaxSample |-> Wire(SampleBytes[k], 60)], 1, MaxSample)

\* the data bytes the sensor holds for the command whose pointer was written
DeviceData(s) ==
    LET cmd == SentCmd(s)
    IN  IF cmd = I2C_READ_DATA_RDY_FLAG THEN {<<0, 0>>, <<0, 1>>}
        ELSE IF cmd = I2C_READ_MEASURED_VALUE THEN {SampleBytes[k] : k \in 1..MaxSample}
        ELSE IF cmd = I2C_READ_VERSION THEN {<<devMajor, devMinor>>}
        ELSE IF cmd = I2C_READ_STATUS_REGISTER THEN StatusWords
        ELSE {<<0, 0>>}

\* what a read of x bytes can get from the sensor
DeviceWire(s, x) ==
    IF SentCmd(s) = I2C_READ_MEASURED_VALUE /\ x = 60
    THEN {SampleWire[k] : k \in 1..MaxSample}
    ELSE {Wire(d, x) : d \in DeviceData(s)}

\* one bit of byte n of the wire bytes flipped on the way
Damaged(raw, n) == [raw EXCEPT ![n] = XOR(@, 1)]

\* where the model damages a response: the CRC of the first or of the last word
DamageAt(raw) == {n \in {3, Len(raw)} : n <= Len(raw)}

(***************************************************************************)
(* Frame codec, receiving side                                             *)
(***************************************************************************)
\* the number of bytes I2C_ReadToBuffer asks the bus for (uint8_t x)
\* seeded fault: the number of raw bytes is not held to MAXBUF
RawCount_NoCap(count) == ((count \div 2) * 3) % 256

RawCount(count) ==
    LET x == ((count \div 2) * 3) % 256
    IN  IF x > MAXBUF THEN MAXBUF ELSE x

\* seeded fault: the top bit of the CRC byte is not compared
CrcOK_SevenBits(raw, t) ==
    raw[3 * t] % 128 = I2C_calc_CRC(raw[3 * t - 2], raw[3 * t - 1]) % 128

\* does triplet t of raw carry the CRC of its two data bytes
CrcOK(raw, t) == raw[3 * t] = I2C_calc_CRC(raw[3 * t - 2], raw[3 * t - 1])

\* seeded fault: a zero first byte is taken for the end of the string
ZeroWord_FirstByte(raw, t) == raw[3 * t - 2] = 0

\* is triplet t the all-zero word that ends a string
ZeroWord(raw, t) == raw[3 * t - 2] = 0 /\ raw[3 * t - 1] = 0

\* the triplets at which the for loop of I2C_ReadToBuffer returns
StopsAt(raw, chk_zero) ==
    {t \in 1..(Len(raw) \div 3) : ~CrcOK(raw, t) \/ (chk_zero /\ ZeroWord(raw, t))}

\* seeded fault: fewer bytes than expected pass the length test
LengthRet_AtMost(len, count) ==
    IF len = 0 THEN ERR_PROTOCOL
    ELSE IF len <= count THEN ERR_OK
    ELSE ERR_DATALENGTH

\* seeded fault: an empty result is not told apart from a wrong length
LengthRet_NoEmptyTest(len, count) ==
    IF len = count THEN ERR_OK ELSE ERR_DATALENGTH

\* the tests of I2C_ReadToBuffer after the for loop, on _Receive_BUF_Length
LengthRet(len, count) ==
    IF len = 0 THEN ERR_PROTOCOL
    ELSE IF len = count THEN ERR_OK
    ELSE ERR_DATALENGTH

\* what I2C_ReadToBuffer prints at level 2 while it parses: a CRC mismatch
\* when the loop returns at one; after the loop the dangling bytes, and an
\* empty or a wrong length
DecodeSays(done, dangling, len, ret) ==
    IF done THEN (IF ret # ERR_OK THEN <<"I2C CRC error">> ELSE <<>>)
    ELSE (IF dangling # 0 THEN <<"Error: Data counter">> ELSE <<>>)
         \o (IF len = 0 THEN <<"Error: Received NO bytes">>
             ELSE IF ret # ERR_OK THEN <<"Error: Expected bytes">>
             ELSE <<>>)

\* I2C_ReadToBuffer once bcm2835_i2c_read has delivered raw: the for loop
\* stores the data bytes of every triplet up to the first one it returns at
\* (a CRC mismatch stores nothing of that triplet); without a return the
\* dangling bytes are copied through and the length decides
Decode(s, count, chk_zero, raw) ==
    LET stops == StopsAt(raw, chk_zero)
        done == stops # {}
        t0 == IF done THEN CHOOSE t \in stops : \A u \in stops : t <= u
              ELSE Len(raw) \div 3
        words == IF done /\ ~CrcOK(raw, t0) THEN t0 - 1 ELSE t0
        dangling == IF done THEN 0 ELSE Len(raw) % 3
        len == 2 * words + dangling
        \* stored byte i is byte i of raw with the CRC bytes before it left out
        stored == [i \in 1..len |-> raw[i + (IF i <= 2 * words THEN (i - 1) \div 2 ELSE words)]]
        buf == stored \o SubSeq(s.RBUF, len + 1, MAXBUF)
        ret == IF done THEN (IF CrcOK(raw, t0) THEN ERR_OK ELSE ERR_PROTOCOL)
               ELSE LengthRet(len, count)
    IN  Out([s EXCEPT !.RBUF = buf, !.RLEN = len,
                      !.out = IF s.Debug = 2
                              THEN @ \o DecodeSays(done, dangling, len, ret)
                              ELSE @],
            ret)

\* I2C_ReadToBuffer once bcm2835_i2c_read has returned OK with the wire bytes
\* raw, as the sensor sent them or with one byte damaged on the way
ReadOf(s, count, chk_zero, raw) ==
    LET got == Logged(s, Event("read", SentCmd(s), <<>>, TRUE))
    IN  {Decode(got, count, chk_zero, raw)}
        \cup (IF s.faults < MaxFaults
              THEN { Decode(Faulted(got, FALSE), count, chk_zero, Damaged(raw, n))
                     : n \in DamageAt(raw) }
              ELSE {})

\* what I2C_ReadToBuffer returns at once for a reason of bcm2835_i2c_read
ReadRet(reason) == IF reason = "OK" THEN ERR_OK ELSE ERR_PROTOCOL

\* uint8_t SPS30::I2C_ReadToBuffer(uint8_t count, bool chk_zero)
I2C_ReadToBuffer(s, count, chk_zero) ==
    UNION { IF ret # ERR_OK
            THEN {Out(Say(Logged(Faulted(s, FALSE), Event("read", SentCmd(s), <<>>, FALSE)),
                          2, "DEBUG: Read error"), ret)}
            ELSE UNION { ReadOf(s, count, chk_zero, raw) : raw \in DeviceWire(s, RawCount(count)) }
            : ret \in {ReadRet(r) : r \in ReasonsFor(s)} }

\* what I2C_SetPointer_Read prints after the read: the bytes received at
\* level 1 and up, the result of a failed read at level 2
ReadSays(s, ret) ==
    IF s.Debug = 0 THEN s.out
    ELSE s.out \o <<"I2C Received">>
               \o (IF s.Debug = 2 /\ ret # ERR_OK
                   THEN <<"Error during reading from I2C">> ELSE <<>>)

\* seeded fault: the read is made whether or not the pointer was written
I2C_SetPointer_Read_Regardless(s, cnt, chk_zero) ==
    Bind(I2C_SetPointer(s),
         LAMBDA w : { Out([r.s EXCEPT !.out = ReadSays(r.s, r.ret)], r.ret)
                      : r \in I2C_ReadToBuffer(w.s, cnt, chk_zero) })

\* uint8_t SPS30::I2C_SetPointer_Read(uint8_t cnt, bool chk_zero)
I2C_SetPointer_Read(s, cnt, chk_zero) ==
    Bind(I2C_SetPointer(s),
         LAMBDA w : IF w.ret # ERR_OK THEN {Out(Say(w.s, 2, "Can not set pointer"), w.ret)}
                    ELSE { Out([r.s EXCEPT !.out = ReadSays(r.s, r.ret)], r.ret)
                           : r \in I2C_ReadToBuffer(w.s, cnt, chk_zero) })

\* bool SPS30::Check_data_ready()
\* seeded fault: any answer that was read well counts as data ready
Check_data_ready_AnyAnswer(s) ==
    Bind(I2C_SetPointer_Read(I2C_fill_buffer(s, I2C_READ_DATA_RDY_FLAG, 0), 2, FALSE),
         LAMBDA r : {Out(r.s, r.ret = ERR_OK)})

Check_data_ready(s) ==
    Bind(I2C_SetPointer_Read(I2C_fill_buffer(s, I2C_READ_DATA_RDY_FLAG, 0), 2, FALSE),
         LAMBDA r : {Out(r.s, r.ret = ERR_OK /\ r.s.RBUF[2] = 1)})

(***************************************************************************)
(* Bus set-up and release                                                  *)
(***************************************************************************)
\* uint8_t SPS30::I2C_init(): bcm2835_init or bcm2835_i2c_begin may fail
I2C_init(s) ==
    {Out(Logged([s EXCEPT !.bus = TRUE], Event("open", 0, <<>>, TRUE)), ERR_OK)}
    \cup (IF s.faults < MaxFaults
          THEN {Out(Logged([s EXCEPT !.bus = FALSE, !.faults = @ + 1],
                           Event("open", 0, <<>>, FALSE)), ERR_PROTOCOL)}
          ELSE {})

\* void SPS30::I2C_close()
I2C_close(s) == Logged([s EXCEPT !.bus = FALSE], Event("close", 0, <<>>, TRUE))

(***************************************************************************)
(* Device instructions                                                     *)
(***************************************************************************)
\* the session after an instruction frame was written
\* seeded fault: a reset leaves _started as it is
Instructed_ResetKeeps(s, type) ==
    IF type = I2C_START_MEASUREMENT THEN [s EXCEPT !.started = TRUE]
    ELSE IF type = I2C_STOP_MEASUREMENT THEN [s EXCEPT !.started = FALSE]
    ELSE s

Instructed(s, type) ==
    IF type = I2C_START_MEASUREMENT THEN [s EXCEPT !.started = TRUE]
    ELSE IF type = I2C_STOP_MEASUREMENT THEN [s EXCEPT !.started = FALSE]
    ELSE IF type = I2C_RESET THEN [s EXCEPT !.started = FALSE]
    ELSE s

\* seeded fault for C3: the started flag is not looked at
InstructAllowed_NoGuard(s, type) == TRUE

\* may the instruction be sent at all: fan cleaning only while measuring
\* seeded fault: with debugging on, the refusal is printed and the
\* instruction is sent all the same
InstructAllowed_UnlessDebug(s, type) ==
    s.Debug # 0 \/ ~(type = I2C_START_FAN_CLEANING /\ s.started = FALSE)

InstructAllowed(s, type) == ~(type = I2C_START_FAN_CLEANING /\ s.started = FALSE)

\* bool SPS30::Instruct(uint32_t type)
Instruct(s, type) ==
    IF ~InstructAllowed(s, type)
    THEN {Out(Say(s, 1, "ERROR : Sensor is not in measurement mode"), FALSE)}
    ELSE Bind(I2C_SetPointer(I2C_fill_buffer(s, type, 0)),
              LAMBDA w : IF w.ret = ERR_OK THEN {Out(Instructed(w.s, type), TRUE)}
                         ELSE {Out(w.s, FALSE)})

start(s) == Instruct(s, I2C_START_MEASUREMENT)
stop(s) == Instruct(s, I2C_STOP_MEASUREMENT)
reset(s) == Instruct(s, I2C_RESET)
clean(s) == Instruct(s, I2C_START_FAN_CLEANING)

(***************************************************************************)
(* Capability gate                                                         *)
(***************************************************************************)
\* uint8_t SPS30::GetVersion(SPS30_version *v): ret is [code, major, minor]
GetVersion(s) ==
    Bind(I2C_SetPointer_Read(I2C_fill_buffer(s, I2C_READ_VERSION, 0), 2, FALSE),
         LAMBDA r : {Out(r.s, [code |-> r.ret, major |-> r.s.RBUF[1], minor |-> r.s.RBUF[2]])})

\* bool SPS30::probe()
probe(s) ==
    Bind(GetVersion(s),
         LAMBDA g : IF g.ret.code = ERR_OK
                    THEN {Out([g.s EXCEPT !.FW_Major = g.ret.major, !.FW_Minor = g.ret.minor], TRUE)}
                    ELSE {Out(g.s, FALSE)})

\* seeded fault for C9: only the major level is compared
LevelOK_MajorOnly(s, major, minor) == major <= s.FW_Major

\* the comparison of FWCheck: is the cached level enough for major.minor
LevelOK(s, major, minor) ==
    IF major > s.FW_Major THEN FALSE
    ELSE IF minor > s.FW_Minor THEN FALSE
    ELSE TRUE

\* seeded fault for C8: the version is read on every check
NeedProbe_Always(s) == TRUE

\* must FWCheck read the version first
NeedProbe(s) == s.FW_Major = 0

\* bool SPS30::FWCheck(uint8_t major, uint8_t minor)
FWCheck(s, major, minor) ==
    IF INCLUDE_FWCHECK = 0 THEN {Out(s, TRUE)}
    ELSE IF NeedProbe(s)
    THEN Bind(probe(s),
              LAMBDA p : IF ~p.ret THEN {Out(p.s, FALSE)}
                         ELSE {Out(p.s, LevelOK(p.s, major, minor))})
    ELSE {Out(s, LevelOK(s, major, minor))}

(***************************************************************************)
(* Sleep and wake-up                                                       *)
(***************************************************************************)
\* the "go to sleep" tail of SetOpMode: the sleep frame, then the flag
GoSleep(s) ==
    Bind(Instruct(s, I2C_SLEEP),
         LAMBDA i : IF ~i.ret THEN {Out(i.s, ERR_PROTOCOL)}
                    ELSE {Out([i.s EXCEPT !.sleep = TRUE], ERR_OK)})

\* the I2C_SLEEP branch of SetOpMode
\* seeded fault: a session that sleeps already is put to sleep again
SleepPart_NoEarlyReturn(s) ==
    IF s.started
    THEN Bind(stop(s),
              LAMBDA st : IF ~st.ret THEN {Out(st.s, ERR_PROTOCOL)}
                          ELSE GoSleep([st.s EXCEPT !.WasStarted = TRUE]))
    ELSE GoSleep([s EXCEPT !.WasStarted = FALSE])

\* seeded fault: the result of stop() is not looked at
SleepPart_StopUnchecked(s) ==
    IF s.sleep THEN {Out(s, ERR_OK)}
    ELSE IF s.started
    THEN Bind(stop(s), LAMBDA st : GoSleep([st.s EXCEPT !.WasStarted = TRUE]))
    ELSE GoSleep([s EXCEPT !.WasStarted = FALSE])

\* seeded fault: an idle session going to sleep leaves _WasStarted as it was
SleepPart_IdleNoAssign(s) ==
    IF s.sleep THEN {Out(s, ERR_OK)}
    ELSE IF s.started
    THEN Bind(stop(s),
              LAMBDA st : IF ~st.ret THEN {Out(st.s, ERR_PROTOCOL)}
                          ELSE GoSleep([st.s EXCEPT !.WasStarted = TRUE]))
    ELSE GoSleep(s)

SleepPart(s) ==
    IF s.sleep THEN {Out(s, ERR_OK)}
    ELSE IF s.started
    THEN Bind(stop(s),
              LAMBDA st : IF ~st.ret THEN {Out(st.s, ERR_PROTOCOL)}
                          ELSE GoSleep([st.s EXCEPT !.WasStarted = TRUE]))
    ELSE GoSleep([s EXCEPT !.WasStarted = FALSE])

\* seeded fault for C4: measurement is not resumed after wake-up
Woken_NoRestart(s) == {Out([s EXCEPT !.sleep = FALSE], ERR_OK)}

\* the end of the I2C_WAKEUP branch, after the two wake-up frames
\* seeded fault: measurement is started after every wake-up
Woken_AlwaysRestart(s) ==
    Bind(start([s EXCEPT !.sleep = FALSE]),
         LAMBDA st : {Out(st.s, IF st.ret THEN ERR_OK ELSE ERR_PROTOCOL)})

Woken(s) ==
    LET w == [s EXCEPT !.sleep = FALSE]
    IN  IF w.WasStarted
        THEN Bind(start(w), LAMBDA st : {Out(st.s, IF st.ret THEN ERR_OK ELSE ERR_PROTOCOL)})
        ELSE {Out(w, ERR_OK)}

\* the I2C_WAKEUP branch of SetOpMode: two wake-up frames, results ignored
\* seeded fault: a failed first wake-up write ends the call
WakePart_FirstSendCounts(s) ==
    IF ~s.sleep THEN {Out(s, ERR_OK)}
    ELSE Bind(Instruct(s, I2C_WAKEUP),
              LAMBDA a : IF ~a.ret THEN {Out(a.s, ERR_PROTOCOL)}
                         ELSE Bind(Instruct(a.s, I2C_WAKEUP), LAMBDA b : Woken(b.s)))

WakePart(s) ==
    IF ~s.sleep THEN {Out(s, ERR_OK)}
    ELSE Bind(Instruct(s, I2C_WAKEUP),
              LAMBDA a : Bind(Instruct(a.s, I2C_WAKEUP), LAMBDA b : Woken(b.s)))

\* uint8_t SPS30::SetOpMode(uint16_t mode)
SetOpMode(s, mode) ==
    Bind(FWCheck(s, 2, 0),
         LAMBDA c : IF ~c.ret THEN {Out(c.s, ERR_FIRMWARE)}
                    ELSE IF mode = I2C_SLEEP THEN SleepPart(c.s)
                    ELSE IF mode = I2C_WAKEUP THEN WakePart(c.s)
                    ELSE {Out(c.s, ERR_PARAMETER)})

(***************************************************************************)
(* Status register                                                         *)
(***************************************************************************)
\* the status bits GetStatusReg takes from the receive buffer
StatusOf(s) ==
    (IF Bit(s.RBUF[2], 5) = 1 THEN STATUS_SPEED_ERROR ELSE 0)
    + (IF Bit(s.RBUF[4], 5) = 1 THEN STATUS_LASER_ERROR ELSE 0)
    + (IF Bit(s.RBUF[4], 4) = 1 THEN STATUS_FAN_ERROR ELSE 0)

\* uint8_t SPS30::GetStatusReg(uint8_t *status): ret is [code, status]
GetStatusReg(s) ==
    Bind(FWCheck(s, 2, 2),
         LAMBDA c :
            IF ~c.ret THEN {Out(c.s, [code |-> ERR_FIRMWARE, status |-> 0])}
            ELSE Bind(I2C_SetPointer_Read(I2C_fill_buffer(c.s, I2C_READ_STATUS_REGISTER, 0), 4, FALSE),
                      LAMBDA r :
                         Bind(I2C_SetPointer(I2C_fill_buffer(r.s, I2C_CLEAR_STATUS_REGISTER, 0)),
                              LAMBDA w :
                                 {Out(w.s, [code |-> IF StatusOf(w.s) # 0 THEN ERR_OUTOFRANGE ELSE ERR_OK,
                                            status |-> StatusOf(w.s)])})))

(***************************************************************************)
(* Auto-clean interval                                                     *)
(***************************************************************************)
\* seeded fault for C5: the bus is not released before it is set up again
Reinit_NoClose(s) ==
    LET save_started == s.started
    IN  Bind(I2C_init(s),
             LAMBDA i :
                Bind(reset(i.s),
                     LAMBDA r :
                        IF ~r.ret THEN {Out(r.s, ERR_PROTOCOL)}
                        ELSE IF save_started
                        THEN Bind(start(r.s),
                                  LAMBDA st : {Out(st.s, IF st.ret THEN ERR_OK ELSE ERR_PROTOCOL)})
                        ELSE {Out(r.s, ERR_OK)}))

\* SetAutoCleanInt after the interval frame was written: bus released and set
\* up again (the result of I2C_init is not looked at), reset, restart
Reinit(s) ==
    LET save_started == s.started
    IN  Bind(I2C_init(I2C_close(s)),
             LAMBDA i :
                Bind(reset(i.s),
                     LAMBDA r :
                        IF ~r.ret THEN {Out(r.s, ERR_PROTOCOL)}
                        ELSE IF save_started
                        THEN Bind(start(r.s),
                                  LAMBDA st : {Out(st.s, IF st.ret THEN ERR_OK ELSE ERR_PROTOCOL)})
                        ELSE {Out(r.s, ERR_OK)}))

\* uint8_t SPS30::SetAutoCleanInt(uint32_t val)
SetAutoCleanInt(s, val) ==
    Bind(I2C_SetPointer(I2C_fill_buffer(s, I2C_SET_AUTO_CLEANING_INTERVAL, val)),
         LAMBDA w : IF w.ret = ERR_OK THEN Reinit(w.s) ELSE {Out(w.s, ERR_PROTOCOL)})

(***************************************************************************)
(* Measurement read path                                                   *)
(***************************************************************************)
\* float SPS30::byte_to_float(int x): the union on the little-endian host
\* seeded fault: conv.array[i] = _Receive_BUF[x+i], the other byte order
byte_to_float_Unswapped(s, x) ==
    LET array == [j \in 0..3 |-> s.RBUF[x + j + 1]]
    IN  <<array[3], array[2], array[1], array[0]>>

byte_to_float(s, x) ==
    LET array == [j \in 0..3 |-> s.RBUF[x + (3 - j) + 1]]
    IN  <<array[3], array[2], array[1], array[0]>>

\* the values an uninitialised uint8_t ret may hold: zero or not
UninitRet == {ERR_OK, ERR_DATALENGTH, ERR_PROTOCOL}

\* does the do-while of GetValues go round again: while (loop++ < 3)
PollAgain(loop) == loop < 3

\* the do-while of GetValues entered with the given loop count;
\* yields [s, ret, loop] as they stand after the loop
RECURSIVE PollLoop(_, _)
PollLoop(s, loop) ==
    Bind(Check_data_ready(s),
         LAMBDA c :
            IF c.ret
            THEN Bind(I2C_SetPointer_Read(I2C_fill_buffer(c.s, I2C_READ_MEASURED_VALUE, 0), 40, FALSE),
                      LAMBDA r : {[s |-> r.s, ret |-> r.ret, loop |-> loop]})
            ELSE IF PollAgain(loop) THEN PollLoop(c.s, loop + 1)
            ELSE {[s |-> c.s, ret |-> u, loop |-> loop + 1] : u \in UninitRet})

\* is the loop count after the do-while the one GetValues takes for a timeout
TimedOut(loop) == loop = 3

\* GetValues after the do-while: ret is [code, v]
\* seeded fault: the caller's record is cleared before the result is tested
AfterPoll_ClearsFirst(p, v) ==
    IF TimedOut(p.loop) THEN Out(p.s, [code |-> ERR_TIMEOUT, v |-> ZeroValues])
    ELSE IF p.ret # ERR_OK THEN Out(p.s, [code |-> ERR_PROTOCOL, v |-> ZeroValues])
    ELSE Out(p.s, [code |-> ERR_OK,
                   v |-> [f \in v_MassPM1..v_PartSize |-> byte_to_float(p.s, 4 * (f - 1))]])

AfterPoll(p, v) ==
    IF TimedOut(p.loop) THEN Out(p.s, [code |-> ERR_TIMEOUT, v |-> v])
    ELSE IF p.ret # ERR_OK THEN Out(p.s, [code |-> ERR_PROTOCOL, v |-> v])
    ELSE Out(p.s, [code |-> ERR_OK,
                   v |-> [f \in v_MassPM1..v_PartSize |-> byte_to_float(p.s, 4 * (f - 1))]])

\* seeded fault: a failed start() is not looked at
GetValues_StartUnchecked(s0, v) ==
    LET s == [s0 EXCEPT !.refreshes = @ + 1]
        polled(t) == { AfterPoll(p, v) : p \in PollLoop(t, 0) }
    IN  IF s.started = FALSE
        THEN Bind(start(s), LAMBDA st : polled(st.s))
        ELSE polled(s)

\* uint8_t SPS30::GetValues(struct sps_values *v)
GetValues(s0, v) ==
    LET s == [s0 EXCEPT !.refreshes = @ + 1]
        polled(t) == { AfterPoll(p, v) : p \in PollLoop(t, 0) }
    IN  IF s.started = FALSE
        THEN Bind(start(s),
                  LAMBDA st : IF ~st.ret THEN {Out(st.s, [code |-> ERR_CMDSTATE, v |-> v])}
                              ELSE polled(st.s))
        ELSE polled(s)

(***************************************************************************)
(* Single-value cache                                                      *)
(***************************************************************************)
\* -1 as a float (0xBF800000)
MinusOne == <<191, 128, 0, 0>>

\* seeded fault for C10: every single-value read reloads
MustReload_Always(s, value) == TRUE

\* must Get_Single_Value reload before it hands out the value
MustReload(s, value) == s.Reported[value] # 0

\* seeded fault for C11: the field handed out is not flagged as reported
Dispense_NoFlag(s, v, value) ==
    Out(s, [value |-> IF value \in DOMAIN v THEN v[value] ELSE ZeroFloat, v |-> v])

\* Get_Single_Value once the record is up to date
Dispense(s, v, value) ==
    Out([s EXCEPT !.Reported[value] = 1],
        [value |-> IF value \in DOMAIN v THEN v[value] ELSE ZeroFloat, v |-> v])

\* float SPS30::Get_Single_Value(uint8_t value): ret is [value, v]
\* seeded fault: the flags are cleared before the result of the reload is tested
Get_Single_Value_ClearsFirst(s, v, value) ==
    IF value > v_PartSize THEN {Out(s, [value |-> MinusOne, v |-> v])}
    ELSE IF MustReload(s, value)
    THEN Bind(GetValues(s, v),
              LAMBDA g : IF g.ret.code # ERR_OK
                         THEN {Out([g.s EXCEPT !.Reported = [i \in 0..v_PartSize |-> 0]],
                                   [value |-> MinusOne, v |-> g.ret.v])}
                         ELSE {Dispense([g.s EXCEPT !.Reported = [i \in 0..v_PartSize |-> 0]],
                                        g.ret.v, value)})
    ELSE {Dispense(s, v, value)}

Get_Single_Value(s, v, value) ==
    IF value > v_PartSize THEN {Out(s, [value |-> MinusOne, v |-> v])}
    ELSE IF MustReload(s, value)
    THEN Bind(GetValues(s, v),
              LAMBDA g : IF g.ret.code # ERR_OK THEN {Out(g.s, [value |-> MinusOne, v |-> g.ret.v])}
                         ELSE {Dispense([g.s EXCEPT !.Reported = [i \in 0..v_PartSize |-> 0]],
                                        g.ret.v, value)})
    ELSE {Dispense(s, v, value)}

(***************************************************************************)
(* The public calls, one action each                                       *)
(***************************************************************************)
\* the auto-clean intervals a caller sets: off, one week, two weeks
Intervals == {0, 604800, 1209600}

\* the session flags as a call finds them
Pre ==
    [started |-> _started, sleep |-> _sleep, WasStarted |-> _WasStarted,
     FW_Major |-> _FW_Major, FW_Minor |-> _FW_Minor, Reported |-> Reported]

NoOp ==
    [op |-> "none", arg |-> 0, ret |-> 0, log |-> <<>>, refreshes |-> 0,
     pre |-> <<>>, out |-> <<>>]

\* the commands of the frames of a log that were written, in order
Sent(log) == [i \in 1..Len(SelectSeq(log, LAMBDA e : e.ev = "write" /\ e.ok)) |->
                 SelectSeq(log, LAMBDA e : e.ev = "write" /\ e.ok)[i].cmd]

\* what is kept of a call once the next one has been made
Summary(c) ==
    [op |-> c.op, arg |-> c.arg, ret |-> c.ret, refreshes |-> c.refreshes,
     pre |-> c.pre, sent |-> Sent(c.log)]

\* the fields of the session after a call, and the record of the call
Commit(o, op, arg, ret) ==
    /\ _Receive_BUF' = o.s.RBUF
    /\ _Receive_BUF_Length' = o.s.RLEN
    /\ _Send_BUF' = o.s.SBUF
    /\ _Send_BUF_Length' = o.s.SLEN
    /\ _SPS30_Debug' = o.s.Debug
    /\ _started' = o.s.started
    /\ _sleep' = o.s.sleep
    /\ _WasStarted' = o.s.WasStarted
    /\ _FW_Major' = o.s.FW_Major
    /\ _FW_Minor' = o.s.FW_Minor
    /\ Reported' = o.s.Reported
    /\ busOpen' = o.s.bus
    /\ faults' = o.s.faults
    /\ probes' = o.s.probes
    /\ lastOp' = [op |-> op, arg |-> arg, ret |-> ret, log |-> o.s.log,
                  refreshes |-> o.s.refreshes, pre |-> Pre, out |-> o.s.out]
    /\ pending' = <<>>
    /\ UNCHANGED <<devMajor, devMinor>>

\* SPS30::SPS30() on the object in static storage, then begin()
\* main_loop is not running
NoMonitor ==
    [pc |-> "none", reset_retry |-> 0, first |-> TRUE, OptMode |-> FALSE,
     DevStatus |-> FALSE, fanclean |-> FALSE, wasReset |-> FALSE]

Constructed ==
    /\ _Receive_BUF = [i \in 1..MAXBUF |-> 0]
    /\ _Receive_BUF_Length = 0
    /\ _Send_BUF = [i \in 1..SENDBUF |-> 0]
    /\ _Send_BUF_Length = 0
    /\ _SPS30_Debug = 0
    /\ _started = FALSE
    /\ _sleep = FALSE
    /\ _WasStarted = FALSE
    /\ _FW_Major = 0
    /\ _FW_Minor = 0
    /\ Reported = [i \in 0..v_PartSize |-> 1]
    /\ v_static = ZeroValues
    /\ v_caller = ZeroValues
    /\ busOpen = TRUE
    /\ probes = 0
    /\ lastOp = NoOp
    /\ prevOp = Summary(NoOp)
    /\ calls = 0
    /\ monitor = NoMonitor

Start ==
    \E o \in start(Sess) : Commit(o, "start", 0, o.ret) /\ UNCHANGED <<v_static, v_caller>>

Stop ==
    \E o \in stop(Sess) : Commit(o, "stop", 0, o.ret) /\ UNCHANGED <<v_static, v_caller>>

Reset ==
    \E o \in reset(Sess) : Commit(o, "reset", 0, o.ret) /\ UNCHANGED <<v_static, v_caller>>

Clean ==
    \E o \in clean(Sess) : Commit(o, "clean", 0, o.ret) /\ UNCHANGED <<v_static, v_caller>>

Sleep ==
    \E o \in SetOpMode(Sess, I2C_SLEEP) :
        Commit(o, "sleep", 0, o.ret) /\ UNCHANGED <<v_static, v_caller>>

Wakeup ==
    \E o \in SetOpMode(Sess, I2C_WAKEUP) :
        Commit(o, "wakeup", 0, o.ret) /\ UNCHANGED <<v_static, v_caller>>

Probe ==
    \E o \in probe(Sess) : Commit(o, "probe", 0, o.ret) /\ UNCHANGED <<v_static, v_caller>>

CheckFW ==
    \E major \in 0..MaxMajor, minor \in 0..MaxMinor :
        \E o \in FWCheck(Sess, major, minor) :
            Commit(o, "FWCheck", <<major, minor>>, o.ret) /\ UNCHANGED <<v_static, v_caller>>

ReadStatus ==
    \E o \in GetStatusReg(Sess) :
        Commit(o, "GetStatusReg", 0, o.ret) /\ UNCHANGED <<v_static, v_caller>>

SetInterval ==
    \E val \in Intervals :
        \E o \in SetAutoCleanInt(Sess, val) :
            Commit(o, "SetAutoCleanInt", val, o.ret) /\ UNCHANGED <<v_static, v_caller>>

ReadValues ==
    \E o \in GetValues(Sess, v_caller) :
        /\ Commit(o, "GetValues", 0, o.ret.code)
        /\ v_caller' = o.ret.v
        /\ UNCHANGED v_static

ReadSingle ==
    \E value \in v_MassPM1..MaxField :
        \E o \in Get_Single_Value(Sess, v_static, value) :
            /\ Commit(o, "Get_Single_Value", value, o.ret.value)
            /\ v_static' = o.ret.v
            /\ UNCHANGED v_caller

\* I2C_ReadToBuffer from the point where bcm2835_i2c_read has filled tmp_buf
\* with the response that waits on the bus
Receive ==
    /\ pending # <<>>
    /\ LET call == pending[1]
       IN  Commit(Decode(Sess, call.count, call.chk_zero, call.raw),
                  "I2C_ReadToBuffer", call,
                  Decode(Sess, call.count, call.chk_zero, call.raw).ret)
    /\ UNCHANGED <<v_static, v_caller>>

\* one bit of the waiting response flips on the bus, at most once per response
Corrupt ==
    /\ pending # <<>>
    /\ pending[1].flipped = 0
    /\ \E n \in 1..Len(pending[1].raw), b \in 0..7 :
          pending' = <<[pending[1] EXCEPT !.raw[n] = FlipBit(@, b), !.flipped = n]>>
    /\ UNCHANGED <<_Receive_BUF, _Receive_BUF_Length, _Send_BUF, _Send_BUF_Length,
                   _SPS30_Debug, _started, _sleep, _WasStarted, _FW_Major, _FW_Minor,
                   Reported, v_static, v_caller, busOpen, devMajor, devMinor, faults,
                   probes, lastOp>>

\* uint8_t SPS30::begin()
Begin ==
    \E o \in I2C_init(Sess) : Commit(o, "begin", 0, o.ret) /\ UNCHANGED <<v_static, v_caller>>

\* void SPS30::close()
Close ==
    Commit(Out(I2C_close(Sess), 0), "close", 0, 0) /\ UNCHANGED <<v_static, v_caller>>

\* void SPS30::EnableDebugging(uint8_t act)
EnableDebugging ==
    /\ \E act \in 0..2 : _SPS30_Debug' = act
    /\ lastOp' = [NoOp EXCEPT !.op = "EnableDebugging", !.arg = _SPS30_Debug', !.pre = Pre]
    /\ UNCHANGED <<_Receive_BUF, _Receive_BUF_Length, _Send_BUF, _Send_BUF_Length,
                   _started, _sleep, _WasStarted, _FW_Major, _FW_Minor,
                   Reported, v_static, v_caller, busOpen, devMajor, devMinor, faults,
                   probes, pending>>

\* the call before the last one is remembered / is not looked at
KeepPrev == prevOp' = Summary(lastOp) /\ UNCHANGED <<calls, monitor>>
NoPrev == UNCHANGED <<prevOp, calls, monitor>>

\* the call is one of the few calls of a short run
Counted == calls < MaxCalls /\ calls' = calls + 1 /\ UNCHANGED <<prevOp, monitor>>

\* a sensor below or at the firmware level sleep and wake-up need
Init ==
    /\ Constructed
    /\ pending = <<>>
    /\ faults = 0
    /\ devMajor \in {1, 2}
    /\ devMinor = 0

\* the control calls: instructions, sleep and wake-up, the auto-clean interval,
\* an explicit probe
Next ==
    \/ Start /\ KeepPrev
    \/ Stop /\ KeepPrev
    \/ Reset /\ KeepPrev
    \/ Clean /\ KeepPrev
    \/ Sleep /\ KeepPrev
    \/ Wakeup /\ KeepPrev
    \/ SetInterval /\ KeepPrev
    \/ Probe /\ KeepPrev

Spec == Init /\ [][Next]_vars

\* any sensor firmware level on the bus
InitGate ==
    /\ Constructed
    /\ pending = <<>>
    /\ faults = 0
    /\ devMajor \in 0..MaxMajor
    /\ devMinor \in 0..MaxMinor

\* the calls behind the capability gate; no explicit probe, so that probes
\* counts the version reads the gate itself makes
NextGate ==
    \/ CheckFW /\ NoPrev
    \/ ReadStatus /\ NoPrev
    \/ Sleep /\ NoPrev
    \/ Wakeup /\ NoPrev

SpecGate == InitGate /\ [][NextGate]_vars

\* a sensor of firmware level 2.2 on the bus
InitValues ==
    /\ Constructed
    /\ pending = <<>>
    /\ faults = 0
    /\ devMajor = 2
    /\ devMinor = 2

\* reading all values
NextValues ==
    \/ Start /\ NoPrev
    \/ Stop /\ NoPrev
    \/ ReadValues /\ NoPrev

SpecValues == InitValues /\ [][NextValues]_vars

\* the same sensor on a bus without transport faults; a refresh still fails
\* when the sensor has no data ready
InitSingle ==
    /\ Constructed
    /\ pending = <<>>
    /\ faults = MaxFaults
    /\ devMajor = 2
    /\ devMinor = 2

\* reading single values through the cache
NextSingle ==
    \/ Stop /\ KeepPrev
    \/ ReadSingle /\ KeepPrev

SpecSingle == InitSingle /\ [][NextSingle]_vars

\* a response to I2C_ReadToBuffer(count, chk_zero): the sensor sends the data
\* bytes it holds as triplets, as many bytes as the call asks the bus for
Response(data, count, chk_zero) ==
    [data |-> data, raw |-> Wire(data, RawCount(count)),
     count |-> count, chk_zero |-> chk_zero, flipped |-> 0]

\* every 2-byte word as the whole response to a read of one word
InitCrc ==
    /\ Constructed
    /\ faults = MaxFaults
    /\ devMajor = 2
    /\ devMinor = 0
    /\ pending \in { <<Response(<<d0, d1>>, 2, FALSE)>> : d0 \in 0..255, d1 \in 0..255 }

NextCrc == Receive /\ NoPrev

SpecCrc == InitCrc /\ [][NextCrc]_vars

\* the most words a response holds
MaxWords == 3

\* data words a sensor sends: the zero word that ends a string, words with
\* one zero byte, a word without zero bytes
WordSamples == {<<0, 0>>, <<0, 1>>, <<65, 0>>, <<190, 239>>}

\* the data byte sequences of k words
RECURSIVE Payloads(_)
Payloads(k) ==
    IF k = 0 THEN {<<>>}
    ELSE {p \o w : p \in Payloads(k - 1), w \in WordSamples}

\* single words of every first byte, as the whole response to a read of 2 bytes
SingleWords == {<<d0, d1>> : d0 \in 0..255, d1 \in {0, 239}}

\* a response of k words waits for a read of 2k or of 2k + 1 data bytes, in
\* fixed-length or in zero-terminated mode
InitDecode ==
    /\ Constructed
    /\ faults = MaxFaults
    /\ devMajor = 2
    /\ devMinor = 0
    /\ \/ \E k \in 0..MaxWords, odd \in {0, 1}, chk_zero \in BOOLEAN :
             \E data \in Payloads(k) :
                 pending = <<Response(data, 2 * k + odd, chk_zero)>>
       \/ \E w \in SingleWords : pending = <<Response(w, 2, FALSE)>>

NextDecode ==
    \/ Corrupt /\ NoPrev
    \/ Receive /\ NoPrev

SpecDecode == InitDecode /\ [][NextDecode]_vars

\* a session whose debug level is set at any time
InitDebug ==
    /\ Constructed
    /\ pending = <<>>
    /\ faults = 0
    /\ devMajor = 2
    /\ devMinor = 0

NextDebug ==
    \/ EnableDebugging /\ NoPrev
    \/ Start /\ NoPrev
    \/ Stop /\ NoPrev
    \/ Clean /\ NoPrev
    \/ Probe /\ NoPrev

SpecDebug == InitDebug /\ [][NextDebug]_vars

\* a session that is closed and set up again between its calls; the calls
\* that use the bus are made while it is set up
InitLife ==
    /\ Constructed
    /\ pending = <<>>
    /\ faults = 0
    /\ devMajor = 2
    /\ devMinor = 0

NextLife ==
    \/ ~busOpen /\ Begin /\ NoPrev
    \/ busOpen /\ Close /\ NoPrev
    \/ busOpen /\ Start /\ NoPrev
    \/ busOpen /\ Stop /\ NoPrev
    \/ busOpen /\ Sleep /\ NoPrev
    \/ busOpen /\ Wakeup /\ NoPrev

SpecLife == InitLife /\ [][NextLife]_vars

\* a few calls that start, stop, read all values, the version or the status
InitPoll ==
    /\ Constructed
    /\ pending = <<>>
    /\ faults = 0
    /\ devMajor = 2
    /\ devMinor = 2

NextPoll ==
    \/ Counted /\ Start
    \/ Counted /\ Stop
    \/ Counted /\ ReadValues
    \/ Counted /\ Probe
    \/ Counted /\ ReadStatus

SpecPoll == InitPoll /\ [][NextPoll]_vars

(***************************************************************************)
(* Reading the record of a call                                            *)
(***************************************************************************)
\* the commands of the frames a log shows handed to bcm2835_i2c_write, in
\* order, whether the write succeeded or not
Written(log) ==
    LET w == SelectSeq(log, LAMBDA e : e.ev = "write")
    IN  [i \in 1..Len(w) |-> w[i].cmd]

\* how often cmd occurs in a sequence of commands
CountOf(cmds, cmd) == Cardinality({i \in DOMAIN cmds : cmds[i] = cmd})

\* how many frames of command cmd a log shows handed to bcm2835_i2c_write
WritesOf(log, cmd) == CountOf(Written(log), cmd)

\* the kind and the command of every bus access of a log, in order
Steps(log) == [i \in 1..Len(log) |-> <<log[i].ev, log[i].cmd>>]

\* GetValues polled four times and its last bus access was still a poll
NeverReady(log) ==
    /\ WritesOf(log, I2C_READ_DATA_RDY_FLAG) = 4
    /\ log[Len(log)].cmd = I2C_READ_DATA_RDY_FLAG

\* the last bus access of a log is a read of the measured values that the
\* transport completed
ReadyRead(log) ==
    /\ Len(log) > 0
    /\ log[Len(log)] = Event("read", I2C_READ_MEASURED_VALUE, <<>>, TRUE)

\* the record the caller of GetValues holds is sample k of the sensor
HoldsSample(k) == \A f \in v_MassPM1..v_PartSize : v_caller[f] = SampleFloat(k, f)

\* the calls that go through FWCheck
Gated == {"sleep", "wakeup", "GetStatusReg", "FWCheck"}

(***************************************************************************)
(* C1 .. C10                                                               *)
(***************************************************************************)
\* C1: when none of the four polls of a GetValues call sees the data-ready
\* flag set, the call returns ERR_TIMEOUT and writes no measured-value read
\* command.  (The code leaves the loop with loop = 4, so its test loop == 3
\* fails and the never assigned ret decides.)
C1_NeverReadyTimesOut ==
    (lastOp.op = "GetValues" /\ NeverReady(lastOp.log))
        => /\ lastOp.ret = ERR_TIMEOUT
           /\ WritesOf(lastOp.log, I2C_READ_MEASURED_VALUE) = 0

\* a GetValues call that polled four times in vain and did not time out
C1_NeverReadyNoTimeout ==
    /\ lastOp.op = "GetValues"
    /\ NeverReady(lastOp.log)
    /\ lastOp.ret # ERR_TIMEOUT
    /\ WritesOf(lastOp.log, I2C_READ_MEASURED_VALUE) = 0

\* C2: when a poll of a GetValues call sees data ready and the 40-byte read
\* that follows decodes with valid CRCs (all 40 bytes stored), the call
\* returns ERR_OK and the caller's ten fields are those of the response.
C2_ReadyReadReturnsValues ==
    (lastOp.op = "GetValues" /\ ReadyRead(lastOp.log) /\ _Receive_BUF_Length = 40)
        => /\ lastOp.ret = ERR_OK
           /\ \E k \in 1..MaxSample : HoldsSample(k)

\* data ready on the fourth poll, the values read and decoded, and the call
\* still returns ERR_TIMEOUT
C2_FourthPollTimesOut ==
    /\ lastOp.op = "GetValues"
    /\ ReadyRead(lastOp.log)
    /\ _Receive_BUF_Length = 40
    /\ WritesOf(lastOp.log, I2C_READ_DATA_RDY_FLAG) = 4
    /\ lastOp.ret = ERR_TIMEOUT

\* C3: clean() on a session that is not measuring returns false, hands no
\* frame to the transport and leaves every session flag as it was.
C3_CleanWhileIdle ==
    (lastOp.op = "clean" /\ ~lastOp.pre.started)
        => /\ lastOp.ret = FALSE
           /\ lastOp.log = <<>>
           /\ Pre = lastOp.pre

\* clean() was called on a session that had been measuring and was stopped
C3_CleanCalledIdle ==
    /\ lastOp.op = "clean"
    /\ ~lastOp.pre.started
    /\ lastOp.ret = FALSE
    /\ prevOp.op = "stop"
    /\ prevOp.pre.started

\* C4: a measuring, awake session on which sleep() returned ERR_OK and then
\* wakeup() returned ERR_OK is measuring and awake again; one stop frame was
\* written in all, no start frame by sleep(), and wakeup() wrote its start
\* frame after the two wake-up frames.
C4_SleepWakeRoundTrip ==
    (/\ prevOp.op = "sleep" /\ prevOp.ret = ERR_OK
     /\ prevOp.pre.started /\ ~prevOp.pre.sleep
     /\ lastOp.op = "wakeup" /\ lastOp.ret = ERR_OK)
        => /\ _started /\ ~_sleep
           /\ CountOf(prevOp.sent, I2C_STOP_MEASUREMENT) = 1
           /\ WritesOf(lastOp.log, I2C_STOP_MEASUREMENT) = 0
           /\ CountOf(prevOp.sent, I2C_START_MEASUREMENT) = 0
           /\ Written(lastOp.log) = <<I2C_WAKEUP, I2C_WAKEUP, I2C_START_MEASUREMENT>>

\* the round trip was made, on a bus that lost the first wake-up frame
C4_RoundTripMade ==
    /\ prevOp.op = "sleep" /\ prevOp.ret = ERR_OK
    /\ prevOp.pre.started /\ ~prevOp.pre.sleep
    /\ lastOp.op = "wakeup" /\ lastOp.ret = ERR_OK
    /\ ~lastOp.log[1].ok
    /\ _started

\* C5: a SetAutoCleanInt(val) that returns ERR_OK has made, in this order and
\* once each: the write of the interval frame carrying val, the release of
\* the bus, the set-up of the bus, the write of the reset frame, and the
\* write of a start frame exactly if the session was measuring.
C5_IntervalSequence ==
    (lastOp.op = "SetAutoCleanInt" /\ lastOp.ret = ERR_OK)
        => /\ Steps(lastOp.log)
                = <<<<"write", I2C_AUTO_CLEANING_INTERVAL>>, <<"close", 0>>,
                    <<"open", 0>>, <<"write", I2C_RESET>>>>
                  \o (IF lastOp.pre.started
                      THEN <<<<"write", I2C_START_MEASUREMENT>>>> ELSE <<>>)
           /\ LET f == lastOp.log[1].frame
              IN  /\ Len(f) = 8
                  /\ ((f[3] * 256 + f[4]) * 256 + f[6]) * 256 + f[7] = lastOp.arg

\* an interval of two weeks was set on a measuring session
C5_IntervalSetMeasuring ==
    /\ lastOp.op = "SetAutoCleanInt"
    /\ lastOp.ret = ERR_OK
    /\ lastOp.arg = 1209600
    /\ lastOp.pre.started
    /\ Len(lastOp.log) = 5

\* C6: SetAutoCleanInt returns ERR_OK only if every step succeeded (the
\* interval write, the set-up of the bus, the reset and the start); it
\* returns ERR_PROTOCOL when the interval write or the reset write failed,
\* and a failed interval write is followed by no other bus access.
C6_OkOnlyIfAllSucceeded ==
    lastOp.op = "SetAutoCleanInt"
        => /\ lastOp.ret = ERR_OK => \A i \in DOMAIN lastOp.log : lastOp.log[i].ok
           /\ (\E i \in DOMAIN lastOp.log :
                   /\ lastOp.log[i].ev = "write"
                   /\ lastOp.log[i].cmd \in {I2C_AUTO_CLEANING_INTERVAL, I2C_RESET}
                   /\ ~lastOp.log[i].ok)
                => lastOp.ret = ERR_PROTOCOL
           /\ ~lastOp.log[1].ok => Len(lastOp.log) = 1

\* ERR_OK from a call whose set-up of the bus failed
C6_OkAfterFailedSetup ==
    /\ lastOp.op = "SetAutoCleanInt"
    /\ lastOp.ret = ERR_OK
    /\ \E i \in DOMAIN lastOp.log : lastOp.log[i].ev = "open" /\ ~lastOp.log[i].ok
    /\ ~busOpen

\* C7: FWCheck(major, minor) on a session with a cached version returns
\* false exactly when the cached major is below major, or equals it with the
\* cached minor below minor.
C7_LevelRule ==
    (lastOp.op = "FWCheck" /\ lastOp.pre.FW_Major # 0)
        => (lastOp.ret = FALSE
              <=> \/ lastOp.pre.FW_Major < lastOp.arg[1]
                  \/ /\ lastOp.pre.FW_Major = lastOp.arg[1]
                     /\ lastOp.pre.FW_Minor < lastOp.arg[2])

\* cached version 3.0, FWCheck(2, 2) returns false
C7_HigherMajorRejected ==
    /\ lastOp.op = "FWCheck"
    /\ lastOp.pre.FW_Major = 3 /\ lastOp.pre.FW_Minor = 0
    /\ lastOp.arg = <<2, 2>>
    /\ lastOp.ret = FALSE

\* C8 as stated: over any sequence of gated calls the version-read command is
\* written at most once.
C8_ProbedAtMostOnce == probes <= 1

\* C8 amended: a gated call writes the version-read command once if the
\* cached major is 0 (nothing cached yet: no probe has succeeded, or the
\* sensor reports major 0) and not at all otherwise; a cached version is
\* never replaced, and what a probe caches is the version of the sensor.
C8_ProbeWhileUnknown ==
    lastOp.op \in Gated
        => /\ WritesOf(lastOp.log, I2C_READ_VERSION)
                = (IF lastOp.pre.FW_Major = 0 THEN 1 ELSE 0)
           /\ lastOp.pre.FW_Major # 0
                => _FW_Major = lastOp.pre.FW_Major /\ _FW_Minor = lastOp.pre.FW_Minor
           /\ <<_FW_Major, _FW_Minor>>
                \in {<<lastOp.pre.FW_Major, lastOp.pre.FW_Minor>>, <<devMajor, devMinor>>}

\* a gated call on a session with a cached version after two version reads:
\* the first probe failed, the second one cached the version
C8_CachedAfterRetry ==
    /\ lastOp.op \in Gated
    /\ lastOp.pre.FW_Major # 0
    /\ probes = 2
    /\ WritesOf(lastOp.log, I2C_READ_VERSION) = 0

\* C9: GetStatusReg on a session with version 2.1 cached returns
\* ERR_FIRMWARE without any access to the bus.
C9_StatusNeeds22 ==
    (lastOp.op = "GetStatusReg" /\ lastOp.pre.FW_Major = 2 /\ lastOp.pre.FW_Minor = 1)
        => /\ lastOp.ret.code = ERR_FIRMWARE
           /\ lastOp.log = <<>>

\* GetStatusReg was called with 2.1 cached, and rejected
C9_StatusCalledAt21 ==
    /\ lastOp.op = "GetStatusReg"
    /\ lastOp.pre.FW_Major = 2 /\ lastOp.pre.FW_Minor = 1
    /\ lastOp.ret.code = ERR_FIRMWARE

\* C10 as stated: two consecutive Get_Single_Value calls for the same field
\* call GetValues once in all.
C10_TwoReadsOneRefresh ==
    (/\ prevOp.op = "Get_Single_Value" /\ lastOp.op = "Get_Single_Value"
     /\ prevOp.arg = lastOp.arg)
        => prevOp.refreshes + lastOp.refreshes = 1

\* C10 amended: two consecutive Get_Single_Value calls for the same field
\* call GetValues once in all if the field was not flagged as reported before
\* the first call, and twice (once per call) if it was, as on a new session.
C10_RefreshesByFlag ==
    (/\ prevOp.op = "Get_Single_Value" /\ lastOp.op = "Get_Single_Value"
     /\ prevOp.arg = lastOp.arg)
        => prevOp.refreshes + lastOp.refreshes
               = (IF prevOp.pre.Reported[prevOp.arg] = 0 THEN 1 ELSE 2)

\* MassPM1 read twice in a row, not flagged before the first read: the first
\* read took the value from the record, the second one reloaded
C10_UnflaggedThenReload ==
    /\ prevOp.op = "Get_Single_Value" /\ lastOp.op = "Get_Single_Value"
    /\ prevOp.arg = v_MassPM1 /\ lastOp.arg = v_MassPM1
    /\ prevOp.pre.Reported[v_MassPM1] = 0
    /\ prevOp.refreshes = 0 /\ lastOp.refreshes = 1

(***************************************************************************)
(* C11 .. C20                                                              *)
(***************************************************************************)
\* C11: Get_Single_Value(f) calls GetValues exactly when field f is flagged
\* as reported when the call is made; after the call f is flagged, so a
\* second call for f right after the first one calls GetValues, and a call
\* for a field that is not flagged calls it not at all.
C11_RefreshIffFlagged ==
    lastOp.op = "Get_Single_Value"
        => /\ lastOp.refreshes = (IF lastOp.pre.Reported[lastOp.arg] # 0 THEN 1 ELSE 0)
           /\ Reported[lastOp.arg] # 0
           /\ (prevOp.op = "Get_Single_Value" /\ prevOp.arg = lastOp.arg)
                => lastOp.refreshes = 1

\* a field read without a reload, right after a read of another field that
\* reloaded and cleared the flags
C11_FirstReadNoRefresh ==
    /\ lastOp.op = "Get_Single_Value"
    /\ lastOp.pre.Reported[lastOp.arg] = 0
    /\ lastOp.refreshes = 0
    /\ prevOp.op = "Get_Single_Value"
    /\ prevOp.arg # lastOp.arg
    /\ prevOp.refreshes = 1

\* the record Get_Single_Value hands out from is sample k of the sensor
CacheHoldsSample(k) == \A f \in v_MassPM1..v_PartSize : v_static[f] = SampleFloat(k, f)

\* C12: between two reloads that succeeded every value Get_Single_Value
\* returns comes from one sample of the sensor (its record is that sample,
\* or still empty, and the value returned is the field of the record), and
\* no field is handed out twice (a field handed out without a reload was
\* not flagged).
C12_OneSamplePerEpoch ==
    /\ \/ v_static = ZeroValues
       \/ \E k \in 1..MaxSample : CacheHoldsSample(k)
    /\ (lastOp.op = "Get_Single_Value" /\ lastOp.ret # MinusOne)
          => /\ lastOp.ret = v_static[lastOp.arg]
             /\ lastOp.refreshes = 0 => lastOp.pre.Reported[lastOp.arg] = 0

\* a value handed out after a reload in which no poll saw data ready: the
\* record was filled from the receive buffer as the polls left it
C12_StaleBufferDispensed ==
    /\ lastOp.op = "Get_Single_Value"
    /\ lastOp.ret # MinusOne
    /\ lastOp.refreshes = 1
    /\ NeverReady(lastOp.log)
    /\ \A k \in 1..MaxSample : ~CacheHoldsSample(k)
    /\ v_static # ZeroValues
(***************************************************************************)
(* C13 .. C20 on the frame codec                                           *)
(***************************************************************************)
\* the reference CRC-8 register after one more message bit, most significant
\* bit first: shift left, and subtract the polynomial x^8 + x^5 + x^4 + 1
\* (0x31) when the bit shifted out differs from the message bit
RefStep(reg, bit) ==
    LET sh == (reg * 2) % 256
    IN  IF (reg \div 128) # bit THEN FlipBit(FlipBit(FlipBit(sh, 5), 4), 0) ELSE sh

RECURSIVE RefFrom(_, _, _)
RefFrom(reg, w, n) ==
    IF n = 0 THEN reg ELSE RefFrom(RefStep(reg, Bit(w, n - 1)), w, n - 1)

\* the reference CRC-8 of the 16-bit word w: initial value 0xFF, no final XOR
RefCRC(w) == RefFrom(255, w, 16)

\* C13: the CRC byte of every triplet the sensor builds from a 2-byte word is
\* the reference CRC-8 (polynomial 0x31, initial value 0xFF, most significant
\* bit first, no final XOR) of that word, and decoding the triplet gives back
\* exactly the word: result OK, two bytes received, the two bytes of the word.
C13_CrcRoundTrip ==
    /\ pending # <<>>
          => pending[1].raw[3] = RefCRC(256 * pending[1].data[1] + pending[1].data[2])
    /\ lastOp.op = "I2C_ReadToBuffer"
          => /\ lastOp.arg.raw[3] = RefCRC(256 * lastOp.arg.data[1] + lastOp.arg.data[2])
             /\ lastOp.ret = ERR_OK
             /\ _Receive_BUF_Length = 2
             /\ SubSeq(_Receive_BUF, 1, 2) = lastOp.arg.data

\* the word 0xBEEF came back from its triplet BE EF 92
C13_BeefDecoded ==
    /\ lastOp.op = "I2C_ReadToBuffer"
    /\ lastOp.arg.raw = <<190, 239, 146>>
    /\ lastOp.ret = ERR_OK
    /\ SubSeq(_Receive_BUF, 1, 2) = <<190, 239>>
\* the triplet that byte n of a response belongs to
TripletOf(n) == (n - 1) \div 3 + 1

\* does a zero word come before word t of the data bytes
ZeroBefore(data, t) ==
    \E u \in 1..(t - 1) : data[2 * u - 1] = 0 /\ data[2 * u] = 0

\* C14, as stated: whichever bit of whichever triplet of a response of valid
\* triplets flips, the decode of the response returns ERR_PROTOCOL.
C14_AnyFlipFails ==
    (lastOp.op = "I2C_ReadToBuffer" /\ lastOp.arg.flipped > 0)
        => lastOp.ret = ERR_PROTOCOL

\* C14, amended: a flipped bit (any of the 24) in a triplet makes the decode
\* return ERR_PROTOCOL with the words before that triplet received, unless
\* the decode checks for a zero word and a zero word comes before the triplet;
\* then the decode has stopped with ERR_OK before it reads the flipped bit.
C14_FlipFailsWhenReached ==
    (lastOp.op = "I2C_ReadToBuffer" /\ lastOp.arg.flipped > 0)
        => LET t == TripletOf(lastOp.arg.flipped)
           IN  IF lastOp.arg.chk_zero /\ ZeroBefore(lastOp.arg.data, t)
               THEN lastOp.ret = ERR_OK
               ELSE /\ lastOp.ret = ERR_PROTOCOL
                    /\ _Receive_BUF_Length = 2 * (t - 1)

\* a bit of the CRC byte of the second triplet flipped, and the decode
\* failed after it had taken the first word
C14_CrcBitFlipCaught ==
    /\ lastOp.op = "I2C_ReadToBuffer"
    /\ lastOp.arg.flipped = 6
    /\ lastOp.ret = ERR_PROTOCOL
    /\ _Receive_BUF_Length = 2
\* was the last call a fixed-length decode of a response nothing flipped in
FixedDecode ==
    /\ lastOp.op = "I2C_ReadToBuffer"
    /\ ~lastOp.arg.chk_zero
    /\ lastOp.arg.flipped = 0

\* the number of triplets of the response the last decode was given
Triplets == Len(lastOp.arg.raw) \div 3

\* the received bytes are the data bytes of the first k triplets, in order
ReceivedWords(k) ==
    /\ _Receive_BUF_Length = 2 * k
    /\ SubSeq(_Receive_BUF, 1, 2 * k) = SubSeq(lastOp.arg.data, 1, 2 * k)

ZeroWords(data) ==
    {t \in 1..(Len(data) \div 2) : data[2 * t - 1] = 0 /\ data[2 * t] = 0}

\* the first of them
FirstZero(data) == CHOOSE t \in ZeroWords(data) : \A u \in ZeroWords(data) : t <= u

\* C16: a decode that checks for a zero word, given a response whose first
\* zero word is word t and in which no bit up to and including triplet t has
\* flipped, returns ERR_OK with exactly the first t words received, whatever
\* the maximum count is and whatever follows triplet t (a flipped bit there
\* included); nothing of what follows is stored in the receive buffer, which
\* was all zero before this decode.
C16_StopsAtFirstZeroWord ==
    (/\ lastOp.op = "I2C_ReadToBuffer"
     /\ lastOp.arg.chk_zero
     /\ ZeroWords(lastOp.arg.data) # {}
     /\ \/ lastOp.arg.flipped = 0
        \/ TripletOf(lastOp.arg.flipped) > FirstZero(lastOp.arg.data))
        => /\ lastOp.ret = ERR_OK
           /\ ReceivedWords(FirstZero(lastOp.arg.data))
           /\ \A i \in (2 * FirstZero(lastOp.arg.data) + 1)..MAXBUF : _Receive_BUF[i] = 0

\* the zero word was the second of three words, a bit of the third triplet
\* had flipped and the maximum count was odd: the decode returned ERR_OK with
\* four bytes
C16_StoppedBeforeDamage ==
    /\ lastOp.op = "I2C_ReadToBuffer"
    /\ lastOp.arg.chk_zero
    /\ lastOp.arg.count = 7
    /\ lastOp.arg.data = <<190, 239, 0, 0, 190, 239>>
    /\ TripletOf(lastOp.arg.flipped) = 3
    /\ lastOp.ret = ERR_OK
    /\ _Receive_BUF_Length = 4
\* C17: a decode that checks for a zero word, given a response of one or more
\* valid triplets, never returns ERR_DATALENGTH, with or without a zero word
\* among them.
C17_NoDataLengthWithZeroCheck ==
    (/\ lastOp.op = "I2C_ReadToBuffer"
     /\ lastOp.arg.chk_zero
     /\ lastOp.arg.flipped = 0
     /\ Triplets >= 1)
        => lastOp.ret # ERR_DATALENGTH

\* a decode that checks for a zero word was given one valid triplet without
\* zero bytes for a maximum count of 3, and returned ERR_DATALENGTH
C17_OddMaximumDataLength ==
    /\ lastOp.op = "I2C_ReadToBuffer"
    /\ lastOp.arg.chk_zero
    /\ lastOp.arg.flipped = 0
    /\ lastOp.arg.count = 3
    /\ lastOp.arg.raw = <<190, 239, 146>>
    /\ ReceivedWords(1)
    /\ lastOp.ret = ERR_DATALENGTH
(***************************************************************************)
(* C18 .. C20 on the session                                               *)
(***************************************************************************)
\* the bus accesses of the last call that failed, the first wake-up write of
\* a wake-up and the data-ready polls left out
FailedAccesses ==
    {i \in DOMAIN lastOp.log :
        /\ ~lastOp.log[i].ok
        /\ lastOp.log[i].cmd # I2C_READ_DATA_RDY_FLAG
        /\ ~(/\ lastOp.log[i].cmd = I2C_WAKEUP
             /\ \A j \in 1..(i - 1) : lastOp.log[j].cmd # I2C_WAKEUP)}

\* C18: a sleep, wake-up or status call in which a write or a read on the bus
\* failed (other than the first wake-up write or a data-ready poll) does not
\* return ERR_OK.
C18_FaultsPropagate ==
    (lastOp.op \in {"sleep", "wakeup"} /\ FailedAccesses # {}
        => lastOp.ret # ERR_OK)
    /\ (lastOp.op = "GetStatusReg" /\ FailedAccesses # {}
        => lastOp.ret.code # ERR_OK)

\* wakeup() returned ERR_OK and cleared _sleep although its second wake-up
\* write failed
C18_WakeOkSecondSendFailed ==
    /\ lastOp.op = "wakeup"
    /\ lastOp.pre.sleep
    /\ lastOp.ret = ERR_OK
    /\ ~_sleep
    /\ \E i, j \in DOMAIN lastOp.log :
          /\ i < j
          /\ lastOp.log[i].cmd = I2C_WAKEUP /\ lastOp.log[i].ok
          /\ lastOp.log[j].cmd = I2C_WAKEUP /\ ~lastOp.log[j].ok
\* an outcome without what depends on the debug level by definition: the
\* level itself and the lines printed
Quiet(o) == [s |-> [o.s EXCEPT !.Debug = 0, !.out = <<>>], ret |-> o.ret]

\* the session at debug level d
AtLevel(d) == [Sess EXCEPT !.Debug = d]

\* a call has the same outcomes at every debug level: the same bus accesses
\* with the same results, the same return value, the same fields afterwards
SameFlow(call(_)) ==
    \A d \in 1..2 :
        {Quiet(o) : o \in call(AtLevel(d))} = {Quiet(o) : o \in call(AtLevel(0))}

\* C19: in every state a session reaches, at whatever debug level, each of
\* start, stop, clean and probe has, for every behaviour of the bus, the same
\* sequence of bus accesses, the same return value and the same session
\* fields afterwards as the same call on the session at levels 0, 1 and 2;
\* EnableDebugging changes nothing but the level. Two sessions that differ
\* in the level only therefore stay equal but for the level, call after call.
C19_DebugKeepsFlow ==
    /\ SameFlow(start)
    /\ SameFlow(stop)
    /\ SameFlow(clean)
    /\ SameFlow(probe)
    /\ lastOp.op = "EnableDebugging"
          => /\ lastOp.log = <<>>
             /\ Pre = lastOp.pre
    /\ _SPS30_Debug = 0 => lastOp.out = <<>>

\* at level 2 a version read met a CRC mismatch, printed it and failed
C19_PrintedAtLevel2 ==
    /\ _SPS30_Debug = 2
    /\ lastOp.op = "probe"
    /\ lastOp.out = <<"I2C Sending", "I2C CRC error", "I2C Received",
                      "Error during reading from I2C">>
    /\ lastOp.ret = FALSE
\* C20: after close() the bus is released, the session is neither started
\* nor asleep, and no firmware version is cached.
C20_CloseZeroesSession ==
    lastOp.op = "close"
        => /\ ~busOpen
           /\ ~_started
           /\ ~_sleep
           /\ _FW_Major = 0
           /\ _FW_Minor = 0

\* close() released the bus of a measuring session with version 2.0 cached
\* and left both as they were
C20_ClosedStillStarted ==
    /\ lastOp.op = "close"
    /\ lastOp.log = <<Event("close", 0, <<>>, TRUE)>>
    /\ ~busOpen
    /\ lastOp.pre.started /\ _started
    /\ lastOp.pre.FW_Major = 2 /\ _FW_Major = 2
(***************************************************************************)
(* C21 .. C30                                                              *)
(***************************************************************************)
\* the 32-bit pattern of a float of the record, whose bytes are kept most
\* significant first
Word32(t) == ((t[1] * 256 + t[2]) * 256 + t[3]) * 256 + t[4]

\* C21: when GetValues returns ERR_OK, field i (0..9) of the record is the
\* 32-bit pattern of the four bytes at offset 4*i of the receive buffer, the
\* first of them the most significant; with 0x41480000 (12.5) and 0x41A20000
\* (20.25) in the first eight bytes and 32 zero bytes behind them, MassPM1 and
\* MassPM2 hold those two patterns and the other eight fields are zero.
C21_FieldsMsbFirst ==
    (lastOp.op = "GetValues" /\ lastOp.ret = ERR_OK)
        => /\ \A f \in v_MassPM1..v_PartSize :
                 Word32(v_caller[f])
                   = 16777216 * _Receive_BUF[4 * (f - 1) + 1]
                       + 65536 * _Receive_BUF[4 * (f - 1) + 2]
                       + 256 * _Receive_BUF[4 * (f - 1) + 3]
                       + _Receive_BUF[4 * (f - 1) + 4]
           /\ SubSeq(_Receive_BUF, 1, 40) = <<65, 72, 0, 0, 65, 162, 0, 0>> \o [i \in 1..32 |-> 0]
                 => /\ Word32(v_caller[v_MassPM1]) = 1095237632
                    /\ Word32(v_caller[v_MassPM1 + 1]) = 1101135872
                    /\ \A f \in (v_MassPM1 + 2)..v_PartSize : Word32(v_caller[f]) = 0

\* GetValues read the 40 bytes of the 12.5 / 20.25 response after a positive
\* data-ready read and filled the record from them
C21_CannedResponseRead ==
    /\ lastOp.op = "GetValues"
    /\ lastOp.ret = ERR_OK
    /\ ReadyRead(lastOp.log)
    /\ _Receive_BUF_Length = 40
    /\ SubSeq(_Receive_BUF, 1, 8) = <<65, 72, 0, 0, 65, 162, 0, 0>>
    /\ Word32(v_caller[v_MassPM1]) = 1095237632
    /\ Word32(v_caller[v_MassPM1 + 1]) = 1101135872
    /\ \A f \in (v_MassPM1 + 2)..v_PartSize : v_caller[f] = ZeroFloat
\* C22: wakeup() on a sleeping session writes the wake-up frame twice, also
\* when the first write fails, and nothing before or between the two; the
\* sleeping flag is cleared, and it is after the two writes that a start
\* frame is written, exactly when _WasStarted was set. _WasStarted after a
\* sleep() that put the session to sleep tells whether that session was
\* measuring.
C22_WakeSendsTwice ==
    /\ (lastOp.op = "wakeup" /\ lastOp.pre.sleep)
          => /\ Written(lastOp.log)
                  = <<I2C_WAKEUP, I2C_WAKEUP>>
                      \o (IF lastOp.pre.WasStarted THEN <<I2C_START_MEASUREMENT>> ELSE <<>>)
             /\ Len(lastOp.log) = Len(Written(lastOp.log))
             /\ ~_sleep
    /\ (lastOp.op = "sleep" /\ ~lastOp.pre.sleep /\ _sleep)
          => _WasStarted = lastOp.pre.started

\* the first wake-up write failed, the second one was made all the same and
\* the start frame followed it
C22_FirstSendFailedThenStart ==
    /\ lastOp.op = "wakeup"
    /\ lastOp.pre.sleep /\ lastOp.pre.WasStarted
    /\ Len(lastOp.log) = 3
    /\ ~lastOp.log[1].ok /\ lastOp.log[1].cmd = I2C_WAKEUP
    /\ lastOp.log[2].ok /\ lastOp.log[2].cmd = I2C_WAKEUP
    /\ lastOp.log[3].ok /\ lastOp.log[3].cmd = I2C_START_MEASUREMENT
    /\ ~_sleep /\ _started
\* the instruction writes of the last call, the version read of the firmware
\* check left out, each with its command and whether it succeeded
Instructions ==
    SelectSeq(lastOp.log, LAMBDA e : e.ev = "write" /\ e.cmd # I2C_READ_VERSION)

\* C23: sleep() on a measuring session that is awake and passes the firmware
\* check writes the stop frame first. When that write succeeds the session is
\* idle, _WasStarted is set and the sleep frame is written next, as the last
\* write; the session sleeps and ERR_OK is returned when the sleep write
\* succeeds. When the stop write fails no sleep frame is written, the
\* session stays awake and measuring, and ERR_PROTOCOL is returned.
C23_StopBeforeSleep ==
    (/\ lastOp.op = "sleep" /\ lastOp.pre.started /\ ~lastOp.pre.sleep
     /\ lastOp.ret # ERR_FIRMWARE)
        => /\ Instructions[1].cmd = I2C_STOP_MEASUREMENT
           /\ IF Instructions[1].ok
              THEN /\ Len(Instructions) = 2
                   /\ Instructions[2].cmd = I2C_SLEEP
                   /\ _WasStarted /\ ~_started
                   /\ _sleep = Instructions[2].ok
                   /\ lastOp.ret = (IF Instructions[2].ok THEN ERR_OK ELSE ERR_PROTOCOL)
              ELSE /\ Len(Instructions) = 1
                   /\ ~_sleep /\ _started
                   /\ _WasStarted = lastOp.pre.WasStarted
                   /\ lastOp.ret = ERR_PROTOCOL

\* the stop write of a sleep() failed: nothing else was written
C23_StopFailedNoSleep ==
    /\ lastOp.op = "sleep"
    /\ lastOp.pre.started /\ ~lastOp.pre.sleep
    /\ Len(Instructions) = 1
    /\ Instructions[1].cmd = I2C_STOP_MEASUREMENT /\ ~Instructions[1].ok
    /\ lastOp.ret = ERR_PROTOCOL
    /\ ~_sleep
\* C24: sleep() on a session that is neither measuring nor asleep writes no
\* stop and no start frame and leaves the session idle; a wakeup() that
\* follows it writes no stop and no start frame either, failed writes
\* counted, and the session is idle and awake afterwards.
C24_IdleRoundTripNoStartStop ==
    /\ (lastOp.op = "sleep" /\ ~lastOp.pre.started /\ ~lastOp.pre.sleep)
          => /\ WritesOf(lastOp.log, I2C_STOP_MEASUREMENT) = 0
             /\ WritesOf(lastOp.log, I2C_START_MEASUREMENT) = 0
             /\ ~_started
    /\ (/\ prevOp.op = "sleep" /\ ~prevOp.pre.started /\ ~prevOp.pre.sleep
        /\ lastOp.op = "wakeup")
          => /\ WritesOf(lastOp.log, I2C_STOP_MEASUREMENT) = 0
             /\ WritesOf(lastOp.log, I2C_START_MEASUREMENT) = 0
             /\ ~_started
             /\ ~_sleep

\* an idle session was put to sleep and woken with two wake-up writes and
\* nothing else
C24_IdleSleptAndWoke ==
    /\ prevOp.op = "sleep" /\ prevOp.ret = ERR_OK
    /\ ~prevOp.pre.started /\ ~prevOp.pre.sleep
    /\ lastOp.op = "wakeup" /\ lastOp.ret = ERR_OK
    /\ lastOp.pre.sleep
    /\ Written(lastOp.log) = <<I2C_WAKEUP, I2C_WAKEUP>>
    /\ ~_started /\ ~_sleep
\* the started, sleeping and was-started flags are as before the last call
FlagsKept ==
    /\ _started = lastOp.pre.started
    /\ _sleep = lastOp.pre.sleep
    /\ _WasStarted = lastOp.pre.WasStarted

\* C25: with a firmware version of 2.0 or later cached, sleep() on a session
\* that sleeps and wakeup() on a session that is awake return ERR_OK without
\* any access to the bus and leave the three flags as they were.
C25_NoOpSleepWake ==
    (/\ lastOp.op \in {"sleep", "wakeup"}
     /\ lastOp.pre.FW_Major >= 2
     /\ lastOp.pre.sleep = (lastOp.op = "sleep"))
        => /\ lastOp.ret = ERR_OK
           /\ lastOp.log = <<>>
           /\ FlagsKept

\* sleep() was called on a session that slept after measuring, and then
\* wakeup() twice: the second wakeup() found the session awake
C25_SecondWakeupIdle ==
    /\ prevOp.op = "wakeup" /\ prevOp.pre.sleep /\ prevOp.pre.WasStarted
    /\ lastOp.op = "wakeup" /\ ~lastOp.pre.sleep
    /\ lastOp.pre.FW_Major = 2
    /\ lastOp.ret = ERR_OK
    /\ lastOp.log = <<>>
    /\ _WasStarted
\* the command of the instruction frame each of the four calls writes
CommandOf(op) ==
    IF op = "reset" THEN I2C_RESET
    ELSE IF op = "start" THEN I2C_START_MEASUREMENT
    ELSE IF op = "stop" THEN I2C_STOP_MEASUREMENT
    ELSE I2C_START_FAN_CLEANING

\* C26: reset, start, stop, and clean on a measuring session, access the bus
\* once, to write the frame of their command, whose first two bytes are the
\* command, most significant byte first. They return true when the write
\* succeeded, and then start has set _started, stop and reset have cleared
\* it and clean has left it; they return false when the write failed, with
\* _started as it was. _sleep and _WasStarted are never changed.
C26_OneFramePerInstruction ==
    (\/ lastOp.op \in {"reset", "start", "stop"}
     \/ lastOp.op = "clean" /\ lastOp.pre.started)
        => /\ Len(lastOp.log) = 1
           /\ lastOp.log[1].ev = "write"
           /\ lastOp.log[1].cmd = CommandOf(lastOp.op)
           /\ SubSeq(lastOp.log[1].frame, 1, 2)
                 = <<CommandOf(lastOp.op) \div 256, CommandOf(lastOp.op) % 256>>
           /\ lastOp.ret = lastOp.log[1].ok
           /\ _started = (IF ~lastOp.log[1].ok \/ lastOp.op = "clean" THEN lastOp.pre.started
                          ELSE lastOp.op = "start")
           /\ _sleep = lastOp.pre.sleep
           /\ _WasStarted = lastOp.pre.WasStarted

\* a reset of a measuring session whose write succeeded: the session is idle
C26_ResetWhileMeasuring ==
    /\ lastOp.op = "reset"
    /\ lastOp.pre.started
    /\ lastOp.ret = TRUE
    /\ Len(lastOp.log) = 1
    /\ ~_started
\* C27: GetValues on a session that is not measuring begins with the write
\* of a start frame; when that write fails it returns ERR_CMDSTATE and has
\* made no other access to the bus. On a measuring session it writes no start
\* frame. Whenever it returns ERR_OK the session is measuring.
C27_ImplicitStart ==
    lastOp.op = "GetValues"
        => /\ ~lastOp.pre.started
                => /\ lastOp.log[1].ev = "write"
                   /\ lastOp.log[1].cmd = I2C_START_MEASUREMENT
                   /\ ~lastOp.log[1].ok
                        => /\ lastOp.ret = ERR_CMDSTATE
                           /\ Len(lastOp.log) = 1
                           /\ ~_started
           /\ lastOp.pre.started => WritesOf(lastOp.log, I2C_START_MEASUREMENT) = 0
           /\ lastOp.ret = ERR_OK => _started

\* GetValues on an idle session could not write its start frame
C27_StartFailedCmdState ==
    /\ lastOp.op = "GetValues"
    /\ ~lastOp.pre.started
    /\ Steps(lastOp.log) = <<(<<"write", I2C_START_MEASUREMENT>>)>>
    /\ ~lastOp.log[1].ok
    /\ lastOp.ret = ERR_CMDSTATE
\* the places in the record of the last call where the pointer of the
\* measured values is written
ValueWrites ==
    {i \in DOMAIN lastOp.log :
        lastOp.log[i].ev = "write" /\ lastOp.log[i].cmd = I2C_READ_MEASURED_VALUE}

\* the number of reads the last call made after the pointer cmd
ReadsOf(cmd) ==
    Cardinality({i \in DOMAIN lastOp.log :
                    lastOp.log[i].ev = "read" /\ lastOp.log[i].cmd = cmd})

\* C28: one GetValues call polls data-ready at most 4 times and reads the
\* measured values at most once. The pointer of the measured values is
\* written only right after a data-ready read that the bus completed, and
\* ends the polling: after it comes its read, if the write succeeded, and
\* nothing else. Where the measured values were not received after it, the
\* receive buffer still holds the answer of that poll, and it has the flag
\* set. A call that got past its start and never wrote that pointer has
\* polled 4 times.
C28_PollThenReadOnce ==
    lastOp.op = "GetValues"
        => /\ WritesOf(lastOp.log, I2C_READ_DATA_RDY_FLAG) <= 4
           /\ ReadsOf(I2C_READ_DATA_RDY_FLAG) <= 4
           /\ Cardinality(ValueWrites) <= 1
           /\ ReadsOf(I2C_READ_MEASURED_VALUE) <= Cardinality(ValueWrites)
           /\ \A i \in ValueWrites :
                 /\ i > 1
                 /\ lastOp.log[i - 1] = Event("read", I2C_READ_DATA_RDY_FLAG, <<>>, TRUE)
                 /\ Len(lastOp.log) = (IF lastOp.log[i].ok THEN i + 1 ELSE i)
                 /\ lastOp.log[Len(lastOp.log)].cmd = I2C_READ_MEASURED_VALUE
                 /\ ~lastOp.log[Len(lastOp.log)].ok
                      => /\ _Receive_BUF_Length = 2
                         /\ SubSeq(_Receive_BUF, 1, 2) = <<0, 1>>
           /\ (ValueWrites = {} /\ lastOp.ret # ERR_CMDSTATE)
                 => WritesOf(lastOp.log, I2C_READ_DATA_RDY_FLAG) = 4

\* the third poll was the first positive one and the measured values were
\* read after it
C28_ThirdPollPositive ==
    /\ lastOp.op = "GetValues"
    /\ lastOp.pre.started
    /\ Steps(lastOp.log)
          = <<(<<"write", I2C_READ_DATA_RDY_FLAG>>), (<<"read", I2C_READ_DATA_RDY_FLAG>>),
              (<<"write", I2C_READ_DATA_RDY_FLAG>>), (<<"read", I2C_READ_DATA_RDY_FLAG>>),
              (<<"write", I2C_READ_DATA_RDY_FLAG>>), (<<"read", I2C_READ_DATA_RDY_FLAG>>),
              (<<"write", I2C_READ_MEASURED_VALUE>>), (<<"read", I2C_READ_MEASURED_VALUE>>)>>
    /\ lastOp.ret = ERR_OK
\* the commands whose frame is the pointer of a read
ReadPointers ==
    {I2C_READ_DATA_RDY_FLAG, I2C_READ_MEASURED_VALUE, I2C_READ_VERSION,
     I2C_READ_STATUS_REGISTER}

\* is access i of the last call a write that a read has to follow: a pointer
\* of a read that was written well; of the two writes of 0xD206 in
\* GetStatusReg the first is such a pointer, the second clears the register
AwaitsRead(i) ==
    /\ lastOp.log[i].ev = "write"
    /\ lastOp.log[i].ok
    /\ lastOp.log[i].cmd \in ReadPointers
    /\ \A j \in 1..(i - 1) : lastOp.log[j].cmd # I2C_READ_STATUS_REGISTER

\* C29: in the record of every call, a read comes right after a write of the
\* same call that succeeded and that set the pointer the read uses; nothing
\* but another write or the end of the call follows a failed write; and
\* right after the write of a pointer that succeeded comes its read, before
\* any other frame is written.
C29_WriteThenRead ==
    \A i \in DOMAIN lastOp.log :
        /\ lastOp.log[i].ev = "read"
              => /\ i > 1
                 /\ lastOp.log[i - 1].ev = "write"
                 /\ lastOp.log[i - 1].ok
                 /\ lastOp.log[i - 1].cmd = lastOp.log[i].cmd
                 /\ lastOp.log[i].cmd \in ReadPointers
        /\ (lastOp.log[i].ev = "write" /\ ~lastOp.log[i].ok /\ i < Len(lastOp.log))
              => lastOp.log[i + 1].ev = "write"
        /\ AwaitsRead(i)
              => /\ i < Len(lastOp.log)
                 /\ lastOp.log[i + 1].ev = "read"

\* GetValues made three write-read pairs one after the other: two polls and
\* the measured values
C29_PairsInARow ==
    /\ lastOp.op = "GetValues"
    /\ Len(lastOp.log) = 6
    /\ \A i \in {1, 3, 5} : AwaitsRead(i) /\ lastOp.log[i + 1].ev = "read"
    /\ lastOp.log[1].cmd = I2C_READ_DATA_RDY_FLAG
    /\ lastOp.log[5].cmd = I2C_READ_MEASURED_VALUE
\* the triplets of the response given to the last decode whose third byte
\* is not the CRC-8 of their two data bytes
BadTriplets ==
    {t \in 1..Triplets :
        lastOp.arg.raw[3 * t]
          # I2C_calc_CRC(lastOp.arg.raw[3 * t - 2], lastOp.arg.raw[3 * t - 1])}

Commands ==
    {I2C_START_MEASUREMENT, I2C_STOP_MEASUREMENT, I2C_READ_DATA_RDY_FLAG,
     I2C_READ_MEASURED_VALUE, I2C_SLEEP, I2C_WAKEUP, I2C_START_FAN_CLEANING,
     I2C_AUTO_CLEANING_INTERVAL, I2C_SET_AUTO_CLEANING_INTERVAL,
     I2C_READ_PRODUCT_TYPE, I2C_READ_SERIAL_NUMBER, I2C_READ_VERSION,
     I2C_READ_STATUS_REGISTER, I2C_RESET, 0, 65535, 74565}

\* the bytes an interval is made of; the most significant byte stays below
\* 128 so that the value remains an integer the model checker can hold
IntervalSamples ==
    {((b3 * 256 + b2) * 256 + b1) * 256 + b0 :
        b3 \in {0, 1, 127}, b2 \in {0, 1, 128, 255},
        b1 \in {0, 1, 128, 255}, b0 \in {0, 1, 128, 255}}

\* I2C_fill_buffer(cmd, interval) on its own; the interval parameter has the
\* default 0 and is given by SetAutoCleanInt only
FillBuffer ==
    \E cmd \in Commands :
        \E interval \in (IF cmd = I2C_SET_AUTO_CLEANING_INTERVAL
                         THEN IntervalSamples ELSE {0}) :
            /\ Commit(Out(I2C_fill_buffer(Sess, cmd, interval), ERR_OK),
                      "I2C_fill_buffer", <<cmd, interval>>, ERR_OK)
            /\ UNCHANGED <<v_static, v_caller>>

InitFrame ==
    /\ Constructed
    /\ faults = 0
    /\ devMajor = 2
    /\ devMinor = 0
    /\ pending = <<>>

NextFrame == FillBuffer /\ NoPrev

SpecFrame == InitFrame /\ [][NextFrame]_vars

\* the number of payload words of the frame in the send buffer
PayloadWords == (_Send_BUF_Length - 2) \div 3

\* the frame in the send buffer
FrameBuilt == SubSeq(_Send_BUF, 1, _Send_BUF_Length)

\* C31: a frame built for any command and interval is two header bytes and
\* k payload words, k in {0, 1, 2}, each word followed by its CRC-8: 2 + 3k
\* bytes, within the 10-byte send buffer, the rest of the buffer zero; the
\* start-measurement frame is 00 10 03 00 CRC(03 00).
C31_FrameLayout ==
    lastOp.op = "I2C_fill_buffer"
        => /\ PayloadWords \in {0, 1, 2}
           /\ _Send_BUF_Length = 2 + 3 * PayloadWords
           /\ _Send_BUF_Length <= SENDBUF
           /\ Len(_Send_BUF) = SENDBUF
           /\ \A i \in (_Send_BUF_Length + 1)..SENDBUF : _Send_BUF[i] = 0
           /\ \A i \in 1..SENDBUF : _Send_BUF[i] \in 0..255
           /\ \A j \in 1..PayloadWords :
                 _Send_BUF[3 * j + 2]
                    = RefCRC(_Send_BUF[3 * j] * 256 + _Send_BUF[3 * j + 1])
           /\ PayloadWords = (IF lastOp.arg[1] = I2C_START_MEASUREMENT THEN 1
                              ELSE IF lastOp.arg[1] = I2C_SET_AUTO_CLEANING_INTERVAL
                              THEN 2 ELSE 0)
           /\ lastOp.arg[1] # I2C_SET_AUTO_CLEANING_INTERVAL
                 => /\ _Send_BUF[1] = (lastOp.arg[1] \div 256) % 256
                    /\ _Send_BUF[2] = lastOp.arg[1] % 256
           /\ lastOp.arg[1] = I2C_START_MEASUREMENT
                 => FrameBuilt = <<0, 16, 3, 0, RefCRC(768)>>

\* the start-measurement frame was built: 00 10 03 00 AC
C31_StartFrameBuilt ==
    /\ lastOp.op = "I2C_fill_buffer"
    /\ lastOp.arg[1] = I2C_START_MEASUREMENT
    /\ FrameBuilt = <<0, 16, 3, 0, 172>>

\* seeded fault: the loop of byte_to_U32 stops one byte short
byte_to_U32_ThreeBytes(s, x) ==
    LET array == [j \in 0..3 |-> IF j = 0 THEN 0 ELSE s.RBUF[x + (3 - j) + 1]]
    IN  ((array[3] * 256 + array[2]) * 256 + array[1]) * 256 + array[0]

\* uint32_t SPS30::byte_to_U32(int x): conv.array[3-i] = _Receive_BUF[x+i],
\* conv.value read on the little-endian host
byte_to_U32(s, x) ==
    LET array == [j \in 0..3 |-> s.RBUF[x + (3 - j) + 1]]
    IN  ((array[3] * 256 + array[2]) * 256 + array[1]) * 256 + array[0]

\* uint8_t SPS30::GetAutoCleanInt(uint32_t *val), the sensor answering with
\* the raw bytes reply: *val is assigned whatever the read returned
GetAutoCleanInt(s, reply) ==
    Bind(I2C_SetPointer(I2C_fill_buffer(s, I2C_AUTO_CLEANING_INTERVAL, 0)),
         LAMBDA w : IF w.ret # ERR_OK
                    THEN {Out(Say(w.s, 2, "Can not set pointer"),
                              [code |-> w.ret, val |-> byte_to_U32(w.s, 0)])}
                    ELSE { Out([r.s EXCEPT !.out = ReadSays(r.s, r.ret)],
                               [code |-> r.ret, val |-> byte_to_U32(r.s, 0)])
                           : r \in ReadOf(w.s, 4, FALSE, reply) })

\* what a sensor that was sent the set-interval frame for val answers to a
\* read of the interval: the two CRC-protected words of that frame
IntervalEcho(val) ==
    [val |-> val,
     raw |-> SubSeq(FrameOf(I2C_SET_AUTO_CLEANING_INTERVAL, val), 3, 8),
     count |-> 4, chk_zero |-> FALSE, flipped |-> 0]

ReadInterval ==
    /\ pending # <<>>
    /\ \E o \in GetAutoCleanInt(Sess, pending[1].raw) :
           Commit(o, "GetAutoCleanInt", pending[1], o.ret)
    /\ UNCHANGED <<v_static, v_caller>>

InitInterval ==
    /\ Constructed
    /\ faults = MaxFaults
    /\ devMajor = 2
    /\ devMinor = 0
    /\ pending \in { <<IntervalEcho(val)>> : val \in IntervalSamples \cup Intervals }

NextInterval == ReadInterval /\ NoPrev

SpecInterval == InitInterval /\ [][NextInterval]_vars

\* the interval the state is about: still to be read back, or read back
IntervalAtHand ==
    IF pending # <<>> THEN pending[1].val
    ELSE IF lastOp.op = "GetAutoCleanInt" THEN lastOp.arg.val ELSE 0

\* C32: the set-interval frame for val is the 8 bytes 80 04, bits 31..24,
\* bits 23..16, the CRC of the two, bits 15..8, bits 7..0, the CRC of the
\* two; GetAutoCleanInt decoding the two words of that frame returns ERR_OK
\* and val.
C32_IntervalRoundTrip ==
    LET val == IntervalAtHand
        b3 == (val \div 16777216) % 256
        b2 == (val \div 65536) % 256
        b1 == (val \div 256) % 256
        b0 == val % 256
    IN  /\ FrameOf(I2C_SET_AUTO_CLEANING_INTERVAL, val)
              = <<128, 4, b3, b2, RefCRC(b3 * 256 + b2),
                  b1, b0, RefCRC(b1 * 256 + b0)>>
        /\ lastOp.op = "GetAutoCleanInt"
              => /\ lastOp.ret.code = ERR_OK
                 /\ lastOp.ret.val = lastOp.arg.val
                 /\ SubSeq(_Receive_BUF, 1, 4) = <<b3, b2, b1, b0>>

\* the default interval of one week, 604800 s, read back from 00 09 3A 80
C32_WeekReadBack ==
    /\ lastOp.op = "GetAutoCleanInt"
    /\ lastOp.arg.val = 604800
    /\ lastOp.arg.raw[1] = 0 /\ lastOp.arg.raw[2] = 9
    /\ lastOp.arg.raw[4] = 58 /\ lastOp.arg.raw[5] = 128
    /\ lastOp.ret = [code |-> ERR_OK, val |-> 604800]

\* the session after SPS30::SPS30(), which assigns every flag but
\* _WasStarted: an object in automatic or dynamic storage starts with either
\* value there
InitFlags ==
    /\ _Receive_BUF = [i \in 1..MAXBUF |-> 0]
    /\ _Receive_BUF_Length = 0
    /\ _Send_BUF = [i \in 1..SENDBUF |-> 0]
    /\ _Send_BUF_Length = 0
    /\ _SPS30_Debug = 0
    /\ _started = FALSE
    /\ _sleep = FALSE
    /\ _WasStarted \in BOOLEAN
    /\ _FW_Major = 0
    /\ _FW_Minor = 0
    /\ Reported = [i \in 0..v_PartSize |-> 1]
    /\ v_static = ZeroValues
    /\ v_caller = ZeroValues
    /\ busOpen = TRUE
    /\ probes = 0
    /\ lastOp = NoOp
    /\ prevOp = Summary(NoOp)
    /\ calls = 0
    /\ monitor = NoMonitor
    /\ pending = <<>>
    /\ faults = 0
    /\ devMajor = 2
    /\ devMinor = 0

NextFlags ==
    \/ Start /\ NoPrev
    \/ Stop /\ NoPrev
    \/ Reset /\ NoPrev
    \/ Clean /\ NoPrev
    \/ Sleep /\ NoPrev
    \/ Wakeup /\ NoPrev

SpecFlags == InitFlags /\ [][NextFlags]_vars

\* C33: _WasStarted is not read before it is written: the step that sets
\* _sleep is a sleep() that has assigned _WasStarted (the value _started had
\* before it), and a wakeup of a session that is not asleep, which does not
\* come to the line reading _WasStarted, changes no flag and sends neither
\* a wake-up nor a start frame.
C33_SleepAssignsWasStarted ==
    [][/\ (~_sleep /\ _sleep')
            => /\ lastOp'.op = "sleep"
               /\ _WasStarted' = _started
       /\ (~_sleep /\ lastOp'.op = "wakeup")
            => /\ WritesOf(lastOp'.log, I2C_WAKEUP) = 0
               /\ WritesOf(lastOp'.log, I2C_START_MEASUREMENT) = 0
               /\ UNCHANGED <<_started, _sleep, _WasStarted>>]_vars

\* an idle session whose _WasStarted began as true went to sleep: the flag
\* now holds false
C33_IdleSleepOverwrote ==
    /\ lastOp.op = "sleep"
    /\ lastOp.ret = ERR_OK
    /\ lastOp.pre.WasStarted
    /\ ~lastOp.pre.started
    /\ _sleep
    /\ ~_WasStarted

\* C34: the sleeping flag and the started flag are never both true.
C34_NeverAsleepAndStarted == ~(_sleep /\ _started)

\* start() on a sleeping session was acknowledged: both flags are true
C34_StartedWhileAsleep ==
    /\ lastOp.op = "start"
    /\ lastOp.pre.sleep
    /\ lastOp.ret
    /\ _sleep
    /\ _started

\* C35: a sleep() that returns an error leaves _started and _sleep as they
\* were before the call.
C35_FailedSleepKeepsFlags ==
    (lastOp.op = "sleep" /\ lastOp.ret # ERR_OK)
        => /\ _started = lastOp.pre.started
           /\ _sleep = lastOp.pre.sleep

\* the stop inside sleep() was acknowledged and the sleep command was not:
\* sleep() returned ERR_PROTOCOL with the session stopped and awake
C35_StoppedButAwake ==
    /\ lastOp.op = "sleep"
    /\ lastOp.ret = ERR_PROTOCOL
    /\ lastOp.pre.started
    /\ ~_started
    /\ ~_sleep
    /\ Written(lastOp.log) = <<I2C_STOP_MEASUREMENT, I2C_SLEEP>>
    /\ lastOp.log[1].ok
    /\ ~lastOp.log[2].ok

\* the firmware level sleep, wakeup and GetStatusReg ask for
RequiredLevel ==
    IF lastOp.op = "GetStatusReg" THEN <<2, 2>> ELSE <<2, 0>>

\* the code the last gated call returned
GatedCode ==
    IF lastOp.op = "GetStatusReg" THEN lastOp.ret.code ELSE lastOp.ret

\* the last call sent the version read and cached nothing from a sensor
\* whose major version is not 0: its probe met a transport or CRC fault
ProbeFaulted ==
    /\ WritesOf(lastOp.log, I2C_READ_VERSION) > 0
    /\ devMajor # 0
    /\ _FW_Major = 0

\* C36: sleep, wakeup and GetStatusReg return ERR_FIRMWARE only when the
\* sensor's version is known (cached as the sensor reports it) and below
\* the required level; a fault during the version probe inside the call is
\* returned as ERR_PROTOCOL.
C36_FirmwareOnlyWhenTooLow ==
    lastOp.op \in {"sleep", "wakeup", "GetStatusReg"}
        => /\ GatedCode = ERR_FIRMWARE
                => /\ ~ProbeFaulted
                   /\ _FW_Major = devMajor /\ _FW_Minor = devMinor
                   /\ \/ _FW_Major < RequiredLevel[1]
                      \/ /\ _FW_Major = RequiredLevel[1]
                         /\ _FW_Minor < RequiredLevel[2]
           /\ ProbeFaulted => GatedCode = ERR_PROTOCOL

\* the write of the version read inside sleep() failed on a sensor with
\* firmware 2.0: nothing was cached and sleep() returned ERR_FIRMWARE
C36_ProbeFaultAsFirmware ==
    /\ lastOp.op = "sleep"
    /\ devMajor = 2
    /\ devMinor = 0
    /\ Written(lastOp.log) = <<I2C_READ_VERSION>>
    /\ ~lastOp.log[1].ok
    /\ _FW_Major = 0
    /\ ~_sleep
    /\ lastOp.ret = ERR_FIRMWARE

\* C37: a GetValues that returns anything but ERR_OK leaves the caller's
\* record as it was; one that returns ERR_OK writes every field of it from
\* the receive buffer.
C37_RecordKeptOnError ==
    [][lastOp'.op = "GetValues"
          => IF lastOp'.ret # ERR_OK
             THEN v_caller' = v_caller
             ELSE \A f \in v_MassPM1..v_PartSize :
                     v_caller'[f] = SubSeq(_Receive_BUF', 4 * f - 3, 4 * f)]_vars

\* the caller's record held a sample from an earlier call when GetValues
\* returned ERR_PROTOCOL: the sample is still there
C37_SampleKeptAfterProtocol ==
    /\ lastOp.op = "GetValues"
    /\ lastOp.ret = ERR_PROTOCOL
    /\ calls = 2
    /\ v_caller # ZeroValues

\* short runs of single-field reads on a bus without faults, where a reload
\* fails when the sensor has no sample ready
NextRefresh ==
    \/ Counted /\ ReadSingle
    \/ Counted /\ Stop

SpecRefresh == InitSingle /\ [][NextRefresh]_vars

\* the single-field read recorded in c went through a reload that failed
RefreshFailed(c) ==
    /\ c.op = "Get_Single_Value"
    /\ c.refreshes = 1
    /\ c.ret = MinusOne

\* C38: a single-field read whose reload fails returns -1 and leaves the
\* Reported flags and the cached record as they were, and the next read of
\* the same field makes a reload again.
C38_FailedRefreshKeepsCache ==
    [][/\ RefreshFailed(lastOp')
            => /\ Reported' = Reported
               /\ v_static' = v_static
       /\ (/\ RefreshFailed(lastOp)
           /\ lastOp'.op = "Get_Single_Value"
           /\ lastOp'.arg = lastOp.arg)
            => lastOp'.refreshes = 1
       /\ (lastOp'.op = "Get_Single_Value" /\ lastOp'.refreshes = 1
             /\ ~RefreshFailed(lastOp'))
            => /\ v_static' = [f \in v_MassPM1..v_PartSize |->
                                  SubSeq(_Receive_BUF', 4 * f - 3, 4 * f)]
               /\ Reported' = [i \in 0..v_PartSize |->
                                  IF i = lastOp'.arg THEN 1 ELSE 0]]_vars

\* the reload of a field read before failed: the read returned -1 with the
\* cache still holding the earlier sample and the field still flagged
C38_FailedReloadOfReadField ==
    /\ RefreshFailed(lastOp)
    /\ calls = 2
    /\ lastOp.pre.Reported = [i \in 0..v_PartSize |-> IF i = lastOp.arg THEN 1 ELSE 0]
    /\ v_static # ZeroValues
    /\ Reported[lastOp.arg] = 1

\* I2C_ReadToBuffer(count, chk_zero) for every count a uint8_t holds, the
\* sensor answering with as many words as are asked for, all BE EF or all
\* 00 00
InitCount ==
    /\ Constructed
    /\ faults = MaxFaults
    /\ devMajor = 2
    /\ devMinor = 0
    /\ \E count \in 0..255, chk_zero \in BOOLEAN, w \in {<<190, 239>>, <<0, 0>>} :
          pending = <<Response([i \in 1..(2 * (MAXBUF \div 3) + 2) |-> w[((i - 1) % 2) + 1]],
                               count, chk_zero)>>

NextCount == Receive /\ NoPrev

SpecCount == InitCount /\ [][NextCount]_vars

\* C39: for every count 0..255 and either read mode the decode asks the
\* transport for at most MAXBUF raw bytes, and the bytes it stores in the
\* receive buffer, a copied dangling part of a triplet included, are at
\* most MAXBUF and no more than the data bytes of what was read.
C39_WithinBuffers ==
    /\ pending # <<>> => Len(pending[1].raw) <= MAXBUF
    /\ Len(_Receive_BUF) = MAXBUF
    /\ _Receive_BUF_Length <= MAXBUF
    /\ lastOp.op = "I2C_ReadToBuffer"
          => /\ Len(lastOp.arg.raw) <= MAXBUF
             /\ _Receive_BUF_Length
                   <= 2 * (Len(lastOp.arg.raw) \div 3) + (Len(lastOp.arg.raw) % 3)

\* count 68 asks for 102 raw bytes and is held to 100: 33 words and the
\* dangling byte are stored, 67 bytes, and the decode returns ERR_DATALENGTH
C39_CappedWithDanglingByte ==
    /\ lastOp.op = "I2C_ReadToBuffer"
    /\ lastOp.arg.count = 68
    /\ ~lastOp.arg.chk_zero
    /\ Len(lastOp.arg.raw) = MAXBUF
    /\ _Receive_BUF_Length = 67
    /\ _Receive_BUF[67] = 190
    /\ lastOp.ret = ERR_DATALENGTH

(***************************************************************************)
(* The monitor: main_loop of sps30.cpp with an endless loop count          *)
(***************************************************************************)
\* void do_output(struct sps_par *sps): GetValues into sps->v, closeout()
\* when it fails, GetStatusReg when the device status was asked for
do_output(s, v, DevStatus) ==
    Bind(GetValues(s, v),
         LAMBDA g :
            IF g.ret.code # ERR_OK
            THEN {Out(I2C_close(g.s), [what |-> "closeout", v |-> g.ret.v])}
            ELSE IF DevStatus
            THEN Bind(GetStatusReg(g.s),
                      LAMBDA t : {Out(t.s, [what |-> "output", v |-> g.ret.v])})
            ELSE {Out(g.s, [what |-> "output", v |-> g.ret.v])})

\* main_loop up to the loop: the version read that ends disp_dev (the reads
\* of serial number and product name before it change the receive buffer
\* only), start(), and clean() when a fan clean was asked for
LoopEntry(s, fanclean) ==
    Bind(GetVersion(s),
         LAMBDA g :
            IF g.ret.code # ERR_OK THEN {Out(g.s, "no device info")}
            ELSE Bind(start(g.s),
                      LAMBDA st :
                         IF ~st.ret THEN {Out(st.s, "can not start")}
                         ELSE IF fanclean
                         THEN Bind(clean(st.s), LAMBDA c : {Out(c.s, "started")})
                         ELSE {Out(st.s, "started")}))

\* the first half of one pass of the loop: the data-ready poll, then the
\* output, the soft reset when reset_retry has run out, or the retry count
LoopPoll(s, m, v) ==
    Bind(Check_data_ready(s),
         LAMBDA c :
            IF c.ret
            THEN { Out(d.s, [what |-> d.ret.what, v |-> d.ret.v,
                             reset_retry |-> RESET_RETRY, first |-> m.first])
                   : d \in do_output(c.s, v, m.DevStatus) }
            ELSE IF m.reset_retry = 0
            THEN Bind(reset(c.s),
                      LAMBDA r : {Out(r.s, [what |-> "reset", v |-> v,
                                            reset_retry |-> RESET_RETRY, first |-> TRUE])})
            ELSE {Out(c.s, [what |-> "no data", v |-> v,
                            reset_retry |-> m.reset_retry - 1, first |-> FALSE])})

\* the second half: sleep() before the delay and wakeup() after it when the
\* sleep option is set
LoopDelay(s, OptMode) ==
    IF OptMode
    THEN Bind(SetOpMode(s, I2C_SLEEP),
              LAMBDA a : Bind(SetOpMode(a.s, I2C_WAKEUP), LAMBDA b : {Out(b.s, "slept")}))
    ELSE {Out(s, "waited")}

\* main_loop(&sps) is called with the options of the command line
Enter ==
    /\ monitor.pc = "none"
    /\ \E OptMode \in BOOLEAN, DevStatus \in BOOLEAN, fanclean \in BOOLEAN :
          \E o \in LoopEntry(Sess, fanclean) :
             /\ Commit(o, "main_loop", "entry", o.ret)
             /\ monitor' = [pc |-> IF o.ret = "started" THEN "poll" ELSE "done",
                            reset_retry |-> RESET_RETRY, first |-> TRUE,
                            OptMode |-> OptMode, DevStatus |-> DevStatus,
                            fanclean |-> fanclean, wasReset |-> FALSE]
    /\ UNCHANGED <<v_static, v_caller, prevOp, calls>>

Poll ==
    /\ monitor.pc = "poll"
    /\ \E o \in LoopPoll(Sess, monitor, v_caller) :
          /\ Commit(o, "main_loop", "poll", o.ret.what)
          /\ v_caller' = o.ret.v
          /\ monitor' = [monitor EXCEPT
                            !.pc = IF o.ret.what = "closeout" THEN "done" ELSE "delay",
                            !.reset_retry = o.ret.reset_retry,
                            !.first = o.ret.first,
                            !.wasReset = @ \/ o.ret.what = "reset"]
    /\ UNCHANGED <<v_static, prevOp, calls>>

Delay ==
    /\ monitor.pc = "delay"
    /\ \E o \in LoopDelay(Sess, monitor.OptMode) :
          /\ Commit(o, "main_loop", "delay", o.ret)
          /\ monitor' = [monitor EXCEPT !.pc = "poll"]
    /\ UNCHANGED <<v_static, v_caller, prevOp, calls>>

NextLoop ==
    \/ Enter
    \/ Poll
    \/ Delay

\* main_loop moves on: every step of NextLoop changes monitor.pc, and one
\* is possible wherever main_loop has not returned
Advance ==
    /\ monitor.pc \in {"none", "poll", "delay"}
    /\ monitor' \in {[pc |-> p, reset_retry |-> r, first |-> f, OptMode |-> o,
                      DevStatus |-> d, fanclean |-> c, wasReset |-> w] :
                        p \in {"poll", "delay", "done"} \ {monitor.pc},
                        r \in 0..RESET_RETRY, f \in BOOLEAN, o \in BOOLEAN,
                        d \in BOOLEAN, c \in BOOLEAN, w \in BOOLEAN}

\* the session as constructed and a sensor with firmware 2.2 on a bus
\* without faults; main_loop is the one thread of the program and runs on
\* until it returns or closeout() ends the program
SpecLoop == InitSingle /\ [][NextLoop]_vars /\ WF_monitor(Advance)

\* the last step was a data-ready poll of the loop made after a soft reset
PollAfterReset ==
    /\ lastOp.op = "main_loop"
    /\ lastOp.arg = "poll"
    /\ monitor.wasReset
    /\ lastOp.ret # "reset"

\* C40: once the loop has issued the soft reset, which leaves _started
\* false, the session is eventually measuring again (_started true), so
\* that the later data-ready polls of the loop are made with _started true.
C40_MeasuringAfterReset ==
    (lastOp.op = "main_loop" /\ lastOp.ret = "reset") ~> _started

\* the sixth poll in a row without data made the loop send the soft reset,
\* and six passes later the next reset: every poll in between was made with
\* _started false
C40_PolledWhileIdle ==
    /\ PollAfterReset
    /\ lastOp.ret = "no data"
    /\ monitor.reset_retry = 0
    /\ ~lastOp.pre.started
    /\ ~_started

====
